---- MODULE Spec2Model ----
(***************************************************************************)
(* SlackData: the data-normalization and brand-resolution pipeline.        *)
(*                                                                         *)
(* Two specifications share this module.                                   *)
(*   Spec      the startup lifespan (main.py) running the category loaders *)
(*             against one store: brand table, equipment tables, the       *)
(*             session's staged rows and the per-batch brand cache.        *)
(*   SpecNorm  the field normalizers, applied to bounded Python values.    *)
(*                                                                         *)
(* Python values are tagged records [t, v]; Python strings are sequences   *)
(* of one-character strings, so that lower(), substring tests and str()    *)
(* are computed rather than assumed.                                       *)
(***************************************************************************)
EXTENDS Integers, Sequences, FiniteSets, TLC

VARIABLES
    files,        \* category -> the JSON array of its dataset file
    absent,       \* the categories whose dataset file does not exist
    brand,        \* committed brand table: row id i has name brand[i]
    tables,       \* category -> committed equipment rows
    session,      \* equipment rows added to the session, not yet committed
    brand_cache,  \* the running batch's brand_cache dict: name -> id
    pc,           \* position of the process: down, check, loop, up
    ci,           \* index into Lifespan of the category being checked/loaded
    cleaned,      \* the cleaned payloads of the running (or last) batch
    i,            \* index of the next payload of the add_*_to_db loop
    resolved,     \* what get_brand returned in this batch: <<name, id>>
    load,         \* the running (or last) load call: category, status, ...
    err,          \* the exception that ended the last startup, or "none"
    startups,     \* number of process starts so far
    everUp,       \* some startup reached the yield with every load succeeding
    everRaised,   \* some startup was ended by an exception
    strict,       \* does get_currency raise when it finds no currency code
    fn,           \* SpecNorm: the normalizer applied last
    arg,          \* SpecNorm: its argument
    out,          \* SpecNorm: its result
    caller_dict,  \* SpecNorm: the caller's dict after a clean_*_data call
    racer,        \* SpecRace: loader -> its items, position, cache and query result
    overlapped,   \* SpecRace: names two loaders queried before either committed
    api_rows,     \* SpecApi: router category -> its table, id -> name
    api_next,     \* SpecApi: router category -> the id the store hands out next
    api_gone,     \* SpecApi: router category -> the ids a DELETE removed
    resp          \* SpecApi: the last request and the status of its response

storeVars == <<files, absent, brand, tables, session, brand_cache, pc, ci, cleaned, i,
               resolved, load, err, startups, everUp, everRaised>>
normVars == <<fn, arg, out, caller_dict>>
raceVars == <<racer, overlapped>>
apiVars == <<api_rows, api_next, api_gone, resp>>
vars == <<storeVars, normVars, strict, raceVars, apiVars>>

(***************************************************************************)
(* Bounds                                                                  *)
(***************************************************************************)
MaxRecords == 3     \* records in all dataset files together
MaxStartups == 2    \* process starts in one behaviour
MaxRaceItems == 2   \* items one of the concurrent loaders resolves
MaxPosts == 2       \* rows created through the routers, all categories together

(***************************************************************************)
(* Python values                                                           *)
(***************************************************************************)
PyNone == [t |-> "none", v |-> <<>>]
PyStr(s) == [t |-> "str", v |-> s]
PyInt(n) == [t |-> "int", v |-> n]
PyBool(b) == [t |-> "bool", v |-> b]
PyList(l) == [t |-> "list", v |-> l]
PyEnum(m) == [t |-> "enum", v |-> m]
PyRaise(e) == [t |-> "raise", v |-> e]

Raised(x) == x.t = "raise"

\* Python truthiness: `not x` is Falsy(x)
Falsy(x) ==
    CASE x.t = "none" -> TRUE
      [] x.t = "str" -> x.v = <<>>
      [] x.t = "int" -> x.v = 0
      [] x.t = "bool" -> ~x.v
      [] x.t = "list" -> x.v = <<>>
      [] OTHER -> FALSE

\* dict.get(key) and dict.get(key, default) on a dict modelled as a function
Get(d, k) == IF k \in DOMAIN d THEN d[k] ELSE PyNone
GetDefault(d, k, dflt) == IF k \in DOMAIN d THEN d[k] ELSE dflt

UpperAlpha == <<"A", "B", "C", "D", "E", "F", "G", "H", "I", "J", "K", "L", "M",
                "N", "O", "P", "Q", "R", "S", "T", "U", "V", "W", "X", "Y", "Z">>
LowerAlpha == <<"a", "b", "c", "d", "e", "f", "g", "h", "i", "j", "k", "l", "m",
                "n", "o", "p", "q", "r", "s", "t", "u", "v", "w", "x", "y", "z">>
Digits == <<"0", "1", "2", "3", "4", "5", "6", "7", "8", "9">>

LowerCh(c) ==
    IF \E k \in DOMAIN UpperAlpha : UpperAlpha[k] = c
    THEN LowerAlpha[CHOOSE k \in DOMAIN UpperAlpha : UpperAlpha[k] = c]
    ELSE c
UpperCh(c) ==
    IF \E k \in DOMAIN LowerAlpha : LowerAlpha[k] = c
    THEN UpperAlpha[CHOOSE k \in DOMAIN LowerAlpha : LowerAlpha[k] = c]
    ELSE c

\* str.lower(), str.upper()
Lower(s) == [k \in DOMAIN s |-> LowerCh(s[k])]
Upper(s) == [k \in DOMAIN s |-> UpperCh(s[k])]

\* `pat in s` for strings
Contains(pat, s) ==
    \E k \in 0..(Len(s) - Len(pat)) : SubSeq(s, k + 1, k + Len(pat)) = pat

IsDigit(c) == \E k \in DOMAIN Digits : Digits[k] = c
DigitVal(c) == (CHOOSE k \in DOMAIN Digits : Digits[k] = c) - 1

RECURSIVE DigitsOf(_)
DigitsOf(n) == IF n < 10 THEN <<Digits[n + 1]>>
               ELSE DigitsOf(n \div 10) \o <<Digits[(n % 10) + 1]>>

RECURSIVE DigitsVal(_)
DigitsVal(s) == IF s = <<>> THEN 0
                ELSE 10 * DigitsVal(SubSeq(s, 1, Len(s) - 1)) + DigitVal(s[Len(s)])

\* repr(x): a str in quotes (escapes are not modelled: the strings of the
\* model hold no quote or backslash), a list as [repr, repr, ...]
RECURSIVE Repr(_)
RECURSIVE JoinRepr(_)
Repr(x) ==
    CASE x.t = "none" -> <<"N", "o", "n", "e">>
      [] x.t = "str" -> <<"'">> \o x.v \o <<"'">>
      [] x.t = "bool" -> IF x.v THEN <<"T", "r", "u", "e">>
                         ELSE <<"F", "a", "l", "s", "e">>
      [] x.t = "int" -> IF x.v < 0 THEN <<"-">> \o DigitsOf(0 - x.v)
                        ELSE DigitsOf(x.v)
      [] x.t = "list" -> <<"[">> \o JoinRepr(x.v) \o <<"]">>
JoinRepr(l) ==
    IF l = <<>> THEN <<>>
    ELSE IF Len(l) = 1 THEN Repr(l[1])
    ELSE Repr(l[1]) \o <<",", " ">> \o JoinRepr(Tail(l))

\* str(x)
Str(x) == IF x.t = "str" THEN x.v ELSE Repr(x)

\* int(x): a decimal string or an int; TypeError for None, ValueError otherwise
IntOf(x) ==
    CASE x.t = "int" -> x
      [] x.t = "bool" -> PyInt(IF x.v THEN 1 ELSE 0)
      [] x.t = "str" ->
            IF x.v # <<>> /\ \A k \in DOMAIN x.v : IsDigit(x.v[k])
            THEN PyInt(DigitsVal(x.v))
            ELSE PyRaise("ValueError")
      [] OTHER -> PyRaise("TypeError")

(***************************************************************************)
(* Field normalizers                                                       *)
(***************************************************************************)
\* The first item of a list, else the value itself; `.lower()` of anything
\* that is not a str raises AttributeError. The if/elif chain of keyword
\* tests is a chain of IF in the same order.

\* materials.py get_metal_material with "steel" tested before "stainless"
get_metal_material_steel_first(material) ==
    IF Falsy(material) THEN PyEnum("OTHER")
    ELSE LET first == IF material.t = "list" THEN material.v[1] ELSE material IN
      IF first.t # "str" THEN PyRaise("AttributeError")
      ELSE LET s == Lower(first.v) IN
        IF Contains(<<"a", "l", "u", "m", "i", "n", "u", "m">>, s) THEN PyEnum("ALUMINUM") ELSE
        IF Contains(<<"s", "t", "e", "e", "l">>, s) THEN PyEnum("STEEL") ELSE
        IF Contains(<<"s", "t", "a", "i", "n", "l", "e", "s", "s">>, s) THEN PyEnum("STAINLESS_STEEL") ELSE
        IF Contains(<<"t", "i", "t", "a", "n", "i", "u", "m">>, s) THEN PyEnum("TITANIUM") ELSE
        PyEnum("OTHER")

\* utilities/materials.py get_metal_material
get_metal_material(material) ==
    IF Falsy(material) THEN PyEnum("OTHER")
    ELSE LET first == IF material.t = "list" THEN material.v[1] ELSE material IN
      IF first.t # "str" THEN PyRaise("AttributeError")
      ELSE LET s == Lower(first.v) IN
        IF Contains(<<"a", "l", "u", "m", "i", "n", "u", "m">>, s) THEN PyEnum("ALUMINUM") ELSE
        IF Contains(<<"s", "t", "a", "i", "n", "l", "e", "s", "s">>, s) THEN PyEnum("STAINLESS_STEEL") ELSE
        IF Contains(<<"s", "t", "e", "e", "l">>, s) THEN PyEnum("STEEL") ELSE
        IF Contains(<<"t", "i", "t", "a", "n", "i", "u", "m">>, s) THEN PyEnum("TITANIUM") ELSE
        PyEnum("OTHER")

\* load_weblocks.py get_front_pin_type
get_front_pin_type(pin_type) ==
    IF Falsy(pin_type) THEN PyEnum("OTHER")
    ELSE LET first == IF pin_type.t = "list" THEN pin_type.v[1] ELSE pin_type IN
      IF first.t # "str" THEN PyRaise("AttributeError")
      ELSE LET s == Lower(first.v) IN
        IF Contains(<<"p", "u", "s", "h">>, s) THEN PyEnum("PUSHPIN") ELSE
        IF Contains(<<"p", "u", "l", "l">>, s) THEN PyEnum("PULLPIN") ELSE
        IF Contains(<<"c", "a", "p", "t", "i", "v", "e">>, s) THEN PyEnum("CAPTIVEPIN") ELSE
        IF Contains(<<"f", "i", "x", "e", "d">>, s) THEN PyEnum("FIXEDBOLT") ELSE
        PyEnum("OTHER")

\* load_weblocks.py get_attachment_point: empty or absent input gives None
get_attachment_point(point_input) ==
    IF Falsy(point_input) THEN PyNone
    ELSE LET first == IF point_input.t = "list" THEN point_input.v[1] ELSE point_input IN
      IF first.t # "str" THEN PyRaise("AttributeError")
      ELSE LET s == Lower(first.v) IN
        IF Contains(<<"u", "n", "i", "v", "e", "r", "s", "a", "l">>, s) THEN PyEnum("UNIVERSAL") ELSE
        IF Contains(<<"p", "i", "n">>, s) THEN PyEnum("PIN") ELSE
        IF Contains(<<"b", "o", "l", "t">>, s) THEN PyEnum("BOLT") ELSE
        IF Contains(<<"b", "e", "n", "t">>, s) THEN PyEnum("BENTPLATE") ELSE
        IF Contains(<<"s", "l", "i", "n", "g">>, s) THEN PyEnum("SLING") ELSE
        IF Contains(<<"h", "o", "l", "e">>, s) THEN PyEnum("HOLE") ELSE
        PyEnum("OTHER")

\* load_grips.py get_connection_type: no emptiness test, no list handling
get_connection_type(connection_type) ==
    IF connection_type.t # "str" THEN PyRaise("AttributeError")
    ELSE LET s == Lower(connection_type.v) IN
        IF Contains(<<"d", "y", "n", "e", "e", "m", "a", " ", "s", "l", "i", "n", "g", " ", "l", "o", "o", "p">>, s) THEN PyEnum("DYNEEMA_SLING_LOOP") ELSE
        IF Contains(<<"m", "o", "u", "n", "t", "i", "n", "g", " ", "h", "o", "l", "e">>, s) THEN PyEnum("MOUNTING_HOLE") ELSE
        PyEnum("OTHER")

\* load_webbings.py get_material_type: no emptiness test, no list handling
get_material_type(material) ==
    IF material.t # "str" THEN PyRaise("AttributeError")
    ELSE LET s == Lower(material.v) IN
        IF Contains(<<"p", "e", "s", "/", "p", "o", "l", "y", "a", "m", "i", "d">>, s) THEN PyEnum("HYBRID") ELSE
        IF Contains(<<"n", "y", "l", "o", "n">>, s) \/ Contains(<<"p", "o", "l", "y", "a", "m", "i", "d">>, s) THEN PyEnum("NYLON") ELSE
        IF Contains(<<"p", "o", "l", "y", "e", "s", "t", "e", "r">>, s) \/ Contains(<<"p", "e", "s">>, s) THEN PyEnum("POLYESTER") ELSE
        IF Contains(<<"d", "y", "n", "e", "e", "m", "a">>, s) THEN PyEnum("DYNEEMA") ELSE
        IF Contains(<<"v", "e", "c", "t", "r", "a", "n">>, s) THEN PyEnum("VECTRAN") ELSE
        PyEnum("OTHER")


\* str.strip() of blanks
RECURSIVE Strip(_)
Strip(s) ==
    IF s = <<>> THEN s
    ELSE IF s[1] = " " THEN Strip(Tail(s))
    ELSE IF s[Len(s)] = " " THEN Strip(SubSeq(s, 1, Len(s) - 1))
    ELSE s

PyTuple(a, b) == [t |-> "tuple", v |-> <<a, b>>]

\* str.replace(" ", "")
RECURSIVE RemoveBlanks(_)
RemoveBlanks(s) ==
    IF s = <<>> THEN s
    ELSE IF Head(s) = " " THEN RemoveBlanks(Tail(s))
    ELSE <<Head(s)>> \o RemoveBlanks(Tail(s))

\* The length of the longest prefix of s made of digits
RECURSIVE DigitPrefixLen(_)
DigitPrefixLen(s) ==
    IF s = <<>> \/ ~IsDigit(Head(s)) THEN 0 ELSE 1 + DigitPrefixLen(Tail(s))

Drop(s, n) == SubSeq(s, n + 1, Len(s))
StartsWith(s, pre) == Len(s) >= Len(pre) /\ SubSeq(s, 1, Len(pre)) = pre

\* re.match(r"(\d+)(?:mm)?(?:-(\d+)(?:mm)?)?", s): the match is anchored at
\* the start only; group 1 is the digit prefix, group 2 the digits after an
\* optional "mm" and a "-", when there are any
WidthMatch(s) ==
    LET d1 == DigitPrefixLen(s)
        rest1 == Drop(s, d1)
        rest2 == IF StartsWith(rest1, <<"m", "m">>) THEN Drop(rest1, 2) ELSE rest1
        d2 == IF StartsWith(rest2, <<"-">>) THEN DigitPrefixLen(Tail(rest2)) ELSE 0
    IN [matched |-> d1 > 0,
        group1 |-> SubSeq(s, 1, d1),
        group2 |-> IF d2 > 0 THEN SubSeq(Tail(rest2), 1, d2) ELSE <<>>]

WidthSentinels == {<<"n", "/", "a">>, <<"n", "a">>, <<"u", "n", "k", "n", "o", "w", "n">>, <<>>}

\* load_weblocks.py parse_width_range returning the two values as read
parse_width_range_unordered(width_str) ==
    IF Falsy(width_str) THEN PyTuple(0, 0)
    ELSE IF width_str.t # "str" THEN PyRaise("AttributeError")
    ELSE IF Lower(width_str.v) \in WidthSentinels THEN PyTuple(0, 0)
    ELSE LET match == WidthMatch(RemoveBlanks(Lower(width_str.v))) IN
        IF ~match.matched THEN PyTuple(0, 0)
        ELSE LET val1 == DigitsVal(match.group1) IN
            IF match.group2 # <<>>
            THEN PyTuple(val1, DigitsVal(match.group2))
            ELSE PyTuple(val1, val1)

\* load_weblocks.py parse_width_range leaving the maximum of a single value
\* at its default
parse_width_range_single_open(width_str) ==
    IF Falsy(width_str) THEN PyTuple(0, 0)
    ELSE IF width_str.t # "str" THEN PyRaise("AttributeError")
    ELSE IF Lower(width_str.v) \in WidthSentinels THEN PyTuple(0, 0)
    ELSE LET match == WidthMatch(RemoveBlanks(Lower(width_str.v))) IN
        IF ~match.matched THEN PyTuple(0, 0)
        ELSE LET val1 == DigitsVal(match.group1) IN
            IF match.group2 # <<>>
            THEN LET val2 == DigitsVal(match.group2) IN
                 PyTuple(IF val1 <= val2 THEN val1 ELSE val2,
                         IF val1 <= val2 THEN val2 ELSE val1)
            ELSE PyTuple(val1, 0)

\* load_weblocks.py parse_width_range
parse_width_range(width_str) ==
    IF Falsy(width_str) THEN PyTuple(0, 0)
    ELSE IF width_str.t # "str" THEN PyRaise("AttributeError")
    ELSE IF Lower(width_str.v) \in WidthSentinels THEN PyTuple(0, 0)
    ELSE LET match == WidthMatch(RemoveBlanks(Lower(width_str.v))) IN
        IF ~match.matched THEN PyTuple(0, 0)
        ELSE LET val1 == DigitsVal(match.group1) IN
            IF match.group2 # <<>>
            THEN LET val2 == DigitsVal(match.group2) IN
                 PyTuple(IF val1 <= val2 THEN val1 ELSE val2,
                         IF val1 <= val2 THEN val2 ELSE val1)
            ELSE PyTuple(val1, val1)

\* A float, held in hundredths
PyFloat(h) == [t |-> "float", v |-> h]
PyDict(d) == [t |-> "dict", v |-> d]

\* The currency codes of the price pattern
CurrencyCodes ==
    {<<"E", "U", "R">>, <<"U", "S", "D">>, <<"G", "B", "P">>, <<"C", "A", "D">>, <<"P", "L", "N">>, <<"Z", "A", "R">>}

\* \s*
RECURSIVE SkipSpaces(_)
SkipSpaces(s) ==
    IF s # <<>> /\ Head(s) \in {" ", "\t"} THEN SkipSpaces(Tail(s)) ELSE s

\* float() of digits with an optional fraction, in hundredths (the fractions
\* of the model have one or two digits)
FloatOf(whole, frac) ==
    100 * DigitsVal(whole)
    + (IF frac = <<>> THEN 0
       ELSE IF Len(frac) = 1 THEN 10 * DigitVal(frac[1])
       ELSE 10 * DigitVal(frac[1]) + DigitVal(frac[2]))

\* ([0-9]+(?:\.[0-9]+)?)\s*(?:EUR|USD|GBP|CAD|PLN|ZAR) matched at the start
\* of s: a shorter run of digits is followed by a digit, and a skipped
\* fraction by a ".", so only the longest runs can match
PriceMatchAt(s) ==
    LET d == DigitPrefixLen(s)
        r1 == Drop(s, d)
        f == IF StartsWith(r1, <<".">>) THEN DigitPrefixLen(Tail(r1)) ELSE 0
        r2 == IF f > 0 THEN Drop(r1, f + 1) ELSE r1
        r3 == SkipSpaces(r2)
    IN [matched |-> d > 0 /\ \E code \in CurrencyCodes : StartsWith(r3, code),
        number |-> FloatOf(SubSeq(s, 1, d), IF f > 0 THEN SubSeq(r1, 2, f + 1) ELSE <<>>)]

\* re.search: the leftmost match
RECURSIVE PriceSearch(_)
PriceSearch(s) ==
    IF s = <<>> THEN [matched |-> FALSE, number |-> 0]
    ELSE IF PriceMatchAt(s).matched THEN PriceMatchAt(s)
    ELSE PriceSearch(Tail(s))

\* pricing[0] of a weblock document, when the pricing list is not empty
FirstPricing(weblock_data) ==
    LET pricing == GetDefault(weblock_data, "pricing", <<>>) IN
    IF pricing # <<>> THEN pricing[1] ELSE [k \in {} |-> PyNone]

HasPricing(weblock_data) == GetDefault(weblock_data, "pricing", <<>>) # <<>>

PriceField(weblock_data) ==
    GetDefault(GetDefault(weblock_data, "specifications", [k \in {} |-> PyNone]),
               "Price (per unit)", PyStr(<<>>))

\* load_weblocks.py parse_price_from_weblock
parse_price_from_weblock(weblock_data) ==
    LET text == Get(FirstPricing(weblock_data), "text")
        price_text == PriceField(weblock_data)
    IN IF HasPricing(weblock_data) /\ ~Falsy(text) /\ PriceSearch(text.v).matched
       THEN PyFloat(PriceSearch(text.v).number)
       ELSE IF ~Falsy(price_text) /\ PriceSearch(price_text.v).matched
       THEN PyFloat(PriceSearch(price_text.v).number)
       ELSE PyNone

\* A member of Currency, by its code
PyCurrency(code) == [t |-> "currency", v |-> code]

\* A local name that was never assigned
Unbound == [t |-> "unbound", v |-> <<>>]

\* utilities/currencies.py get_currency: the whitelisted code that occurs in
\* the text; when there is none the lookup fails, by an exception when
\* `raises` and by returning None otherwise
get_currency(text, raises) ==
    IF text.t = "str" /\ \E code \in CurrencyCodes : Contains(code, text.v)
    THEN PyCurrency(CHOOSE code \in CurrencyCodes : Contains(code, text.v))
    ELSE IF raises THEN PyRaise("ValueError") ELSE PyNone

\* try: currency = get_currency(x) / except: pass
TryAssign(currency, result) == IF Raised(result) THEN currency ELSE result

\* load_weblocks.py parse_currency_from_weblock
parse_currency_from_weblock(weblock_data, raises) ==
    LET entry == FirstPricing(weblock_data)
        c1 == TryAssign(Unbound,
                        get_currency(GetDefault(entry, "tooltip", PyStr(<<>>)), raises))
        c2 == TryAssign(c1, get_currency(GetDefault(entry, "text", PyStr(<<>>)), raises))
        c0 == IF HasPricing(weblock_data) THEN c2 ELSE Unbound
        c3 == TryAssign(c0, get_currency(PriceField(weblock_data), raises))
    IN IF HasPricing(weblock_data) /\ c1 = Unbound THEN PyRaise("UnboundLocalError")
       ELSE IF HasPricing(weblock_data) /\ ~Falsy(c1) THEN c1
       ELSE IF HasPricing(weblock_data) /\ ~Falsy(c2) THEN c2
       ELSE IF c3 = Unbound THEN PyRaise("UnboundLocalError")
       ELSE IF ~Falsy(c3) THEN c3
       ELSE PyCurrency(<<"E", "U", "R">>)

\* load_weblocks.py clean_weblock_data: the name, the brand, the price and the
\* currency of the cleaned record (the documents of the model hold none of the
\* specifications the other keys are computed from)
clean_weblock_data(weblock, raises) ==
    LET currency == parse_currency_from_weblock(weblock, raises) IN
    IF Raised(currency) THEN currency
    ELSE PyDict([raw_name |-> Get(weblock, "name"),
                 raw_brand_name |-> Get(weblock, "brand"),
                 price |-> parse_price_from_weblock(weblock),
                 currency |-> IF ~Falsy(currency) THEN PyStr(currency.v) ELSE PyNone])

\* load_weblocks.py parse_boolean_isa
parse_boolean_isa(value_str) ==
    IF Falsy(value_str) THEN PyBool(FALSE)
    ELSE IF value_str.t # "str" THEN PyRaise("AttributeError")
    ELSE LET s == Lower(Strip(value_str.v)) IN
        PyBool(s = <<"y", "e", "s">> \/ s = <<"t", "r", "u", "e">> \/ s = <<"a", "p", "p", "r", "o", "v", "e", "d">>)

\* load_starterkits.py clean_starterkit_data, lines 56-69: the tensioning type
\* from the cleaned value ("" was already turned into None)
starterkit_tensioning_type(raw_t) ==
    IF raw_t.t = "none" THEN PyEnum("OTHER")
    ELSE LET rt == Upper(Str(raw_t)) IN
        IF Contains(<<"R", "A", "T", "2">>, rt) \/ Contains(<<"D", "O", "U", "B", "L", "E">>, rt) THEN PyEnum("DOUBLE_RATCHET") ELSE
        IF Contains(<<"R", "A", "T", "1">>, rt) \/ (Contains(<<"R", "A", "T">>, rt) /\ ~Contains(<<"R", "A", "T", "2">>, rt))
           \/ Contains(<<"S", "I", "N", "G", "L", "E">>, rt) THEN PyEnum("SINGLE_RATCHET") ELSE
        IF Contains(<<"P", "R", "I", "M">>, rt) \/ Contains(<<"P", "R", "I", "M", "I", "T", "I", "V", "E">>, rt) THEN PyEnum("PRIMITIVE") ELSE
        PyEnum("OTHER")

\* load_tricklinekits.py clean_tricklinekit_data, lines 50-60
tricklinekit_tensioning_type(raw) ==
    IF raw.t = "none" THEN PyEnum("OTHER")
    ELSE LET rt == Upper(Str(raw)) IN
        IF Contains(<<"R", "A", "T", "2">>, rt) \/ Contains(<<"D", "O", "U", "B", "L", "E">>, rt) THEN PyEnum("DOUBLE_RATCHET") ELSE
        IF Contains(<<"R", "A", "T", "1">>, rt) THEN PyEnum("SINGLE_RATCHET") ELSE
        PyEnum("OTHER")

(***************************************************************************)
(* Datasets                                                                *)
(***************************************************************************)
\* The categories of the startup sequence that are modelled, in its order
\* (main.py lines 49-60). Their loaders have the same shape as the others'.
Lifespan == <<"weblock", "grip", "treepro", "starterkit">>
Categories == {Lifespan[k] : k \in DOMAIN Lifespan}
Cat(k) == Lifespan[k]

\* Python None where an int id is expected (Brand.id: int | None)
NoId == 0

\* Raw brand values: two names and a missing (null) brand
BrandValues == {PyStr(<<"A">>), PyStr(<<"B">>), PyNone}

\* Raw records: per category the brand varies, and the one field on which
\* the building of the domain record succeeds or fails.
RawRecords(cat) ==
    CASE cat = "grip" ->
            {[name |-> PyStr(<<"g">>), manufacturer |-> b, width_min |-> PyInt(25)] :
                b \in BrandValues}
            \cup {[name |-> PyStr(<<"g">>), manufacturer |-> PyStr(<<"A">>),
                   width_min |-> PyNone]}
            \* a record whose name is null
            \cup {[name |-> PyNone, manufacturer |-> PyStr(<<"A">>), width_min |-> PyInt(25)]}
      [] cat = "treepro" ->
            {[name |-> PyStr(<<"t">>), manufacturer |-> b,
              price_unit |-> PyStr(<<"s", "i", "n", "g", "l", "e">>)] : b \in BrandValues}
            \cup {[name |-> PyStr(<<"t">>), manufacturer |-> PyStr(<<"A">>),
                   price_unit |-> PyStr(<<"b", "a", "g">>)]}
      [] cat = "starterkit" ->
            {[name |-> PyStr(<<"k">>), manufacturer |-> b, webbing_length |-> PyInt(15)] :
                b \in BrandValues}
            \cup {[name |-> PyStr(<<"k">>), manufacturer |-> PyStr(<<"A">>),
                   webbing_length |-> PyStr(<<"l", "o", "n", "g">>)]}
      \* weblock documents: one with a price, one that names no currency
      \* anywhere, one whose name is null
      [] cat = "weblock" ->
            {[name |-> PyStr(<<"w">>), brand |-> PyStr(<<"A">>),
              pricing |-> <<[text |-> PyStr(<<"4", "9", ".", "9", "9", " ", "E", "U", "R">>), tooltip |-> PyStr(<<"4", "9", ".", "9", "9", " ", "E", "U", "R">>)]>>,
              specifications |-> [k \in {} |-> PyNone]],
             [name |-> PyStr(<<"w">>), brand |-> PyStr(<<"B">>),
              pricing |-> <<>>,
              specifications |-> [k \in {} |-> PyNone]],
             [name |-> PyNone, brand |-> PyStr(<<"A">>),
              pricing |-> <<[text |-> PyStr(<<"4", "9", ".", "9", "9", " ", "E", "U", "R">>), tooltip |-> PyStr(<<"4", "9", ".", "9", "9", " ", "E", "U", "R">>)]>>,
              specifications |-> [k \in {} |-> PyNone]]}

\* The dataset files of Lifespan[1..k], holding at most `budget` records
RECURSIVE FileChoices(_, _)
FileChoices(k, budget) ==
    IF k = 0 THEN {<<>>}
    ELSE UNION {{Append(fs, d) : fs \in FileChoices(k - 1, budget - n),
                                 d \in [1..n -> RawRecords(Cat(k))]} :
                n \in 0..budget}

(***************************************************************************)
(* Cleaning (clean_*_data)                                                 *)
(***************************************************************************)
\* load_treepros.py lines 41-45 (and the same lines of the kit loaders)
bool_like(v) ==
    IF v.t = "str"
    THEN PyBool(Lower(v.v) \in {<<"t", "r", "u", "e">>, <<"1">>, <<"y", "e", "s">>})
    ELSE IF v.t # "none" THEN PyBool(~Falsy(v)) ELSE PyBool(FALSE)

clean_grip_data(grip) ==
    [key \in DOMAIN grip |->
        LET value == grip[key] IN
        IF key \notin {"name", "manufacturer", "material", "isa_certified"}
           /\ value = PyStr(<<>>)
        THEN PyNone
        ELSE IF key = "isa_certified"
        THEN IF value.t = "none" THEN PyBool(FALSE)
             ELSE IF value.t = "str" THEN PyBool(value.v # <<>>) ELSE value
        ELSE IF value.t # "none" THEN PyStr(Str(value)) ELSE PyNone]

\* clean_webbing_data without the rule for the numeric fields
clean_webbing_data_no_zero(webbing) ==
    [key \in DOMAIN webbing |->
        LET value == webbing[key] IN
        IF key \notin {"name", "brand", "materialType"} /\ value = PyStr(<<>>)
        THEN PyNone
        ELSE IF key = "isa_certified"
        THEN IF value.t = "str" THEN PyBool(value.v # <<>>) ELSE value
        ELSE IF value.t # "none" THEN PyStr(Str(value)) ELSE PyNone]

\* load_webbings.py clean_webbing_data
clean_webbing_data(webbing) ==
    [key \in DOMAIN webbing |->
        LET value == webbing[key] IN
        IF key \in {"width", "weight"} /\ value = PyStr(<<>>)
        THEN PyInt(0)
        ELSE IF key \notin {"name", "brand", "materialType"} /\ value = PyStr(<<>>)
        THEN PyNone
        ELSE IF key = "isa_certified"
        THEN IF value.t = "str" THEN PyBool(value.v # <<>>) ELSE value
        ELSE IF value.t # "none" THEN PyStr(Str(value)) ELSE PyNone]

clean_treepro_data(treepro) ==
    LET cleaned0 == [key \in DOMAIN treepro |->
                        IF treepro[key] = PyStr(<<>>) THEN PyNone ELSE treepro[key]]
    IN [key \in DOMAIN cleaned0 |->
            IF key = "has_sling_attachment" THEN bool_like(cleaned0[key])
            ELSE cleaned0[key]]

clean_starterkit_data(starterkit) ==
    LET cleaned_kits == [key \in DOMAIN starterkit |->
                            IF starterkit[key] = PyStr(<<>>) THEN PyNone
                            ELSE starterkit[key]]
    IN [key \in DOMAIN cleaned_kits \cup {"tensioning_type"} |->
            IF key \in {"includes_treepro", "isa_certified"}
            THEN bool_like(cleaned_kits[key])
            ELSE IF key = "tensioning_type"
            THEN starterkit_tensioning_type(Get(cleaned_kits, "tensioning_type"))
            ELSE cleaned_kits[key]]

\* The dict the caller passed, after the call.  clean_grip_data and
\* clean_webbing_data bind their result name to the parameter
\* (`cleaned_grip = grip`) and assign into it; the other cleaners fill a new
\* dict (`cleaned = {}`)
clean_grip_data_argument(grip) == clean_grip_data(grip)
clean_webbing_data_argument(webbing) == clean_webbing_data(webbing)
clean_treepro_data_argument(treepro) == treepro
clean_starterkit_data_argument(starterkit) == starterkit

CleanRecord(cat, raw) ==
    CASE cat = "grip" -> clean_grip_data(raw)
      [] cat = "treepro" -> clean_treepro_data(raw)
      [] cat = "starterkit" -> clean_starterkit_data(raw)

NotRaised(x) == ~Raised(x)

\* load_weblocks.py lines 257-263: the payloads of the documents whose
\* cleaning raised nothing; the others are printed and left out
CleanedWeblocks(raw_weblocks_data, raises) ==
    LET results == [k \in DOMAIN raw_weblocks_data |->
                       clean_weblock_data(raw_weblocks_data[k], raises)]
        kept == SelectSeq(results, NotRaised)
    IN [k \in DOMAIN kept |-> kept[k].v]

\* The cleaned payloads of a load_* call
CleanedPayloads(cat, file, raises) ==
    IF cat = "weblock" THEN CleanedWeblocks(file, raises)
    ELSE [k \in DOMAIN file |-> CleanRecord(cat, file[k])]

\* The raw brand and the raw name of a cleaned payload
BrandOf(cat, rec) ==
    IF cat = "weblock" THEN Get(rec, "raw_brand_name") ELSE Get(rec, "manufacturer")
NameOf(cat, rec) ==
    IF cat = "weblock" THEN Get(rec, "raw_name") ELSE Get(rec, "name")

(***************************************************************************)
(* Brand resolution (get_brand)                                            *)
(***************************************************************************)
EmptyDict == [k \in {} |-> NoId]

\* the store query looking at the first row only
FindBrandId_first_row_only(tbl, brand_name) ==
    IF tbl # <<>> /\ tbl[1] = brand_name THEN 1 ELSE NoId

\* the store compares names without regard to case
FindBrandId_any_case(tbl, brand_name) ==
    IF \E r \in DOMAIN tbl : Lower(tbl[r]) = Lower(brand_name)
    THEN CHOOSE r \in DOMAIN tbl :
            Lower(tbl[r]) = Lower(brand_name)
            /\ \A q \in DOMAIN tbl : Lower(tbl[q]) = Lower(brand_name) => r <= q
    ELSE NoId

\* the store query left out: every name looks new
FindBrandId_skipped(tbl, brand_name) == NoId

\* select(Brand.id).where(Brand.name == brand_name) ... .first()
FindBrandId(tbl, brand_name) ==
    IF \E r \in DOMAIN tbl : tbl[r] = brand_name
    THEN CHOOSE r \in DOMAIN tbl :
            tbl[r] = brand_name /\ \A q \in DOMAIN tbl : tbl[q] = brand_name => r <= q
    ELSE NoId

\* the id read back is one past the row that was created
CreatedBrandId_next(tbl, fault) == IF fault THEN NoId ELSE Len(tbl) + 1

\* The id read back after session.add, commit and refresh of a new brand
\* row. `fault` is the store misbehaving: the refreshed row carries no id.
CreatedBrandId(tbl, fault) == IF fault THEN NoId ELSE Len(tbl)

\* get_brand without the cache test and without the store query: a brand row
\* is created for every record
get_brand_always_create(tbl, cache, item, fault, persisted) ==
    LET brand_name == Str(Get(item, "brand"))
        tbl2 == IF persisted \/ ~fault THEN Append(tbl, brand_name) ELSE tbl
        brand_id == CreatedBrandId(tbl2, fault)
    IN IF brand_id = NoId
       THEN [raised |-> TRUE, brand_id |-> NoId, brand_cache |-> cache,
             brand |-> tbl2, committed |-> TRUE, name |-> brand_name,
             null_id |-> TRUE]
       ELSE [raised |-> FALSE, brand_id |-> brand_id,
             brand_cache |-> (brand_name :> brand_id) @@ cache,
             brand |-> tbl2, committed |-> TRUE, name |-> brand_name,
             null_id |-> FALSE]

\* get_brand without the `if brand_id is None: raise` of lines 25-26
get_brand_no_check(tbl, cache, item, fault, persisted) ==
    LET brand_name == Str(Get(item, "brand")) IN
    IF brand_name \in DOMAIN cache
    THEN [raised |-> FALSE, brand_id |-> cache[brand_name], brand_cache |-> cache,
          brand |-> tbl, committed |-> FALSE, name |-> brand_name, null_id |-> FALSE]
    ELSE LET result == FindBrandId(tbl, brand_name)
             create == result = NoId
             tbl2 == IF create /\ (persisted \/ ~fault)
                     THEN Append(tbl, brand_name) ELSE tbl
             brand_id == IF create THEN CreatedBrandId(tbl2, fault) ELSE result
         IN [raised |-> FALSE, brand_id |-> brand_id,
             brand_cache |-> (brand_name :> brand_id) @@ cache,
             brand |-> tbl2, committed |-> create, name |-> brand_name,
             null_id |-> create /\ brand_id = NoId]

\* get_brand storing a resolved name in a new dict instead of the one passed
get_brand_new_cache(tbl, cache, item, fault, persisted) ==
    LET brand_name == Str(Get(item, "brand")) IN
    IF brand_name \in DOMAIN cache
    THEN [raised |-> FALSE, brand_id |-> cache[brand_name], brand_cache |-> cache,
          brand |-> tbl, committed |-> FALSE, name |-> brand_name, null_id |-> FALSE]
    ELSE LET result == FindBrandId(tbl, brand_name)
             create == result = NoId
             tbl2 == IF create /\ (persisted \/ ~fault)
                     THEN Append(tbl, brand_name) ELSE tbl
             brand_id == IF create THEN CreatedBrandId(tbl2, fault) ELSE result
         IN IF brand_id = NoId
            THEN [raised |-> TRUE, brand_id |-> NoId, brand_cache |-> cache,
                  brand |-> tbl2, committed |-> create, name |-> brand_name,
                  null_id |-> create]
            ELSE [raised |-> FALSE, brand_id |-> brand_id,
                  brand_cache |-> (brand_name :> brand_id),
                  brand |-> tbl2, committed |-> create, name |-> brand_name,
                  null_id |-> FALSE]

\* get_brand(session, brand_cache, item). `persisted` says whether the row of
\* a faulty creation is in the table afterwards (either can be the case).
\* Result: raised, brand_id, the cache, the brand table, whether
\* session.commit() ran (it commits everything the session holds), and
\* null_id: the store returned a newly created brand without an id.
get_brand(tbl, cache, item, fault, persisted) ==
    LET brand_name == Str(Get(item, "brand")) IN
    IF brand_name \in DOMAIN cache
    THEN [raised |-> FALSE, brand_id |-> cache[brand_name], brand_cache |-> cache,
          brand |-> tbl, committed |-> FALSE, name |-> brand_name, null_id |-> FALSE]
    ELSE LET result == FindBrandId(tbl, brand_name)
             create == result = NoId
             tbl2 == IF create /\ (persisted \/ ~fault)
                     THEN Append(tbl, brand_name) ELSE tbl
             brand_id == IF create THEN CreatedBrandId(tbl2, fault) ELSE result
         IN IF brand_id = NoId
            THEN [raised |-> TRUE, brand_id |-> NoId, brand_cache |-> cache,
                  brand |-> tbl2, committed |-> create, name |-> brand_name,
                  null_id |-> create]
            ELSE [raised |-> FALSE, brand_id |-> brand_id,
                  brand_cache |-> (brand_name :> brand_id) @@ cache,
                  brand |-> tbl2, committed |-> create, name |-> brand_name,
                  null_id |-> FALSE]

\* Two loaders run at once against one store, each with its own session and
\* its own brand_cache
Loaders == {1, 2}

\* A loader at line 9 of get_brand for items[k]; `result` is what its
\* existence query returned once it is at line 13
Racer(items) ==
    [items |-> items, k |-> 1, cache |-> EmptyDict, step |-> "test", result |-> NoId]

RaceIdle ==
    /\ racer = [l \in Loaders |-> Racer(<<>>)]
    /\ overlapped = {}

\* The category routers under api/routers
ApiCategories == {"grip", "leashring", "starterkit", "treepro", "tricklinekit"}

NoRequest == [op |-> "none", cat |-> "none", id |-> 0, status |-> 0]

\* No request was served and the tables are empty
ApiIdle ==
    /\ api_rows = [c \in ApiCategories |-> << >>]
    /\ api_next = [c \in ApiCategories |-> 1]
    /\ api_gone = [c \in ApiCategories |-> {}]
    /\ resp = NoRequest

(***************************************************************************)
(* Building the domain record (the *Create models and model_validate)      *)
(***************************************************************************)
\* pydantic: an int field takes an int, a bool or a decimal string
ValidInt(v) == ~Raised(IntOf(v)) /\ v.t # "none"
\* an optional str-valued enum field takes None or one of the values
ValidOptEnum(v, values) == v.t = "none" \/ (v.t = "str" /\ v.v \in values)

\* the row loses its brand reference
Row_without_brand(name, brand_id, src) == [name |-> name, brand_id |-> NoId, src |-> src]

\* Grip.model_validate(grip_create) and its siblings: the row that is staged
Row(name, brand_id, src) == [name |-> name, brand_id |-> brand_id, src |-> src]

\* load_grips.py lines 53-73
BuildGrip(grip, brand_id, src) ==
    LET material == get_metal_material(PyStr(Str(GetDefault(grip, "material", PyStr(<<>>)))))
        width_min == IntOf(GetDefault(grip, "width_min", PyInt(0)))
        connection_type ==
            get_connection_type(PyStr(Str(GetDefault(grip, "connection_type", PyStr(<<>>)))))
    IN IF Raised(material) THEN material
       ELSE IF Raised(width_min) THEN width_min
       ELSE IF Raised(connection_type) THEN connection_type
       ELSE IF brand_id = NoId THEN PyRaise("ValidationError")
       ELSE [t |-> "row", v |-> Row(Str(Get(grip, "name")), brand_id, src)]

\* treepro.py PriceUnit
PriceUnit == {<<"s", "i", "n", "g", "l", "e">>, <<"p", "a", "i", "r">>}

\* load_treepros.py lines 61-83
BuildTreePro(treepro, brand_id, src) ==
    IF brand_id = NoId \/ ~ValidOptEnum(Get(treepro, "price_unit"), PriceUnit)
    THEN PyRaise("ValidationError")
    ELSE [t |-> "row", v |-> Row(Str(Get(treepro, "name")), brand_id, src)]

\* load_starterkits.py lines 84-109
BuildStarterKit(sk, brand_id, src) ==
    LET length == Get(sk, "webbing_length")
        webbing_length == IF Falsy(length) THEN PyInt(0) ELSE length
    IN IF brand_id = NoId \/ ~ValidInt(webbing_length)
       THEN PyRaise("ValidationError")
       ELSE [t |-> "row", v |-> Row(Str(Get(sk, "name")), brand_id, src)]

\* models/weblocks.py WeblockCreate: name is a required str
WeblockNameValid(name) == name.t = "str"

\* load_weblocks.py lines 98-122
BuildWeblock(weblock, brand_id, src) ==
    LET name == GetDefault(weblock, "raw_name", PyStr(<<"U", "n", "k", "n", "o", "w", "n", " ", "W", "e", "b", "l", "o", "c", "k">>)) IN
    IF brand_id = NoId \/ ~WeblockNameValid(name)
    THEN PyRaise("ValidationError")
    ELSE [t |-> "row", v |-> Row(name.v, brand_id, src)]

Build(cat, rec, brand_id, src) ==
    CASE cat = "grip" -> BuildGrip(rec, brand_id, src)
      [] cat = "weblock" -> BuildWeblock(rec, brand_id, src)
      [] cat = "treepro" -> BuildTreePro(rec, brand_id, src)
      [] cat = "starterkit" -> BuildStarterKit(rec, brand_id, src)

\* a commit that leaves out the staged rows the table already holds
Commit_deduplicating(tbls, cat, staged) ==
    LET Held(row) == \E r \in DOMAIN tbls[cat] : tbls[cat][r] = row
        IsNew(row) == ~Held(row)
    IN [tbls EXCEPT ![cat] = @ \o SelectSeq(staged, IsNew)]

\* session.commit(): the staged rows become rows of the category's table
Commit(tbls, cat, staged) == [tbls EXCEPT ![cat] = @ \o staged]

(***************************************************************************)
(* The startup sequence and the loaders                                    *)
(***************************************************************************)
NormIdle == fn = "none" /\ arg = PyNone /\ out = PyNone /\ caller_dict = PyNone

\* The load printed no count
NoReport == [t |-> "silent", v |-> <<>>]

Init ==
    /\ files \in {[c \in Categories |->
                    fs[CHOOSE k \in DOMAIN Lifespan : Lifespan[k] = c]] :
                  fs \in FileChoices(Len(Lifespan), MaxRecords)}
    \* a startup never gets past the first file that does not exist, so one
    \* missing file stands for every set of missing files that begins with it
    /\ absent \in {{}} \cup {{c} : c \in {d \in Categories : files[d] = <<>>}}
    /\ brand = <<>>
    /\ tables = [c \in Categories |-> <<>>]
    /\ session = <<>>
    /\ brand_cache = EmptyDict
    /\ pc = "down"
    /\ ci = 1
    /\ cleaned = <<>>
    /\ i = 1
    /\ resolved = <<>>
    /\ load = [cat |-> "none", status |-> "none", brand0 |-> 0, null_id |-> FALSE,
               added |-> NoReport]
    /\ err = "none"
    /\ startups = 0
    /\ everUp = FALSE
    /\ everRaised = FALSE
    /\ strict \in (IF files["weblock"] # <<>> THEN BOOLEAN ELSE {FALSE})
    /\ NormIdle
    /\ RaceIdle
    /\ ApiIdle

\* The process starts: lifespan() opens a session (main.py lines 30-32)
lifespan_start ==
    /\ pc = "down"
    /\ startups < MaxStartups
    /\ pc' = "check"
    /\ ci' = 1
    /\ session' = <<>>
    /\ err' = "none"
    /\ startups' = startups + 1
    /\ load' = [cat |-> "none", status |-> "none", brand0 |-> Len(brand), null_id |-> FALSE,
                added |-> NoReport]
    /\ UNCHANGED <<files, absent, brand, tables, brand_cache, cleaned, i, resolved, everUp, everRaised>>
    /\ UNCHANGED <<normVars, strict, raceVars, apiVars>>

\* the emptiness guard left out
TableEmpty_unguarded(tbls, cat) == TRUE

\* `existing = session.exec(select(X)).first()`: is the category's table empty?
TableEmpty(tbls, cat) == tbls[cat] = <<>>

\* The table holds a row: the category's load step is skipped
lifespan_skip ==
    /\ pc = "check"
    /\ ci <= Len(Lifespan)
    /\ ~TableEmpty(tables, Cat(ci))
    /\ ci' = ci + 1
    /\ UNCHANGED <<files, absent, brand, tables, session, brand_cache, pc, cleaned, i,
                   resolved, load, err, startups, everUp, everRaised>>
    /\ UNCHANGED <<normVars, strict, raceVars, apiVars>>

\* The count a load_* call prints after add_*_to_db returned: the length of
\* the cleaned list, and in load_weblocks the value add_weblocks_to_db
\* returned, which is None
ReportedCount(cat, cleaned_payloads) ==
    IF cat = "weblock" THEN PyNone ELSE PyInt(Len(cleaned_payloads))

\* `if not cleaned_weblocks_payloads` (load_weblocks.py line 265)
NothingCleaned(cat, file, raises) ==
    cat = "weblock" /\ CleanedPayloads(cat, file, raises) = <<>>

\* the existence test left out
FileExists_unchecked(missing, cat) == TRUE

\* `X_FILE.exists()` in load_*_json
FileExists(missing, cat) == cat \notin missing

\* The table is empty: load_*(session) reads the file, cleans every record
\* and enters add_*_to_db with a fresh brand_cache
load_begin ==
    /\ pc = "check"
    /\ ci <= Len(Lifespan)
    /\ TableEmpty(tables, Cat(ci))
    /\ FileExists(absent, Cat(ci))
    /\ ~NothingCleaned(Cat(ci), files[Cat(ci)], strict)
    /\ cleaned' = CleanedPayloads(Cat(ci), files[Cat(ci)], strict)
    /\ brand_cache' = EmptyDict
    /\ resolved' = <<>>
    /\ i' = 1
    /\ pc' = "loop"
    /\ load' = [cat |-> Cat(ci), status |-> "running", brand0 |-> Len(brand),
                null_id |-> FALSE, added |-> NoReport]
    /\ UNCHANGED <<files, absent, brand, tables, session, ci, err, startups, everUp, everRaised>>
    /\ UNCHANGED <<normVars, strict, raceVars, apiVars>>

\* An exception leaves add_*_to_db, load_* and lifespan: the `with` block
\* closes the session (what it holds uncommitted is lost) and startup fails.
Raise(e, null_id) ==
    /\ err' = e
    /\ pc' = "down"
    /\ session' = <<>>
    /\ load' = [load EXCEPT !.status = "raised", !.null_id = null_id]
    /\ everRaised' = TRUE

\* The table is empty and the dataset file does not exist: load_*_json
\* raises FileNotFoundError, the first statement of load_*
load_not_found ==
    /\ pc = "check"
    /\ ci <= Len(Lifespan)
    /\ TableEmpty(tables, Cat(ci))
    /\ ~FileExists(absent, Cat(ci))
    /\ err' = "FileNotFoundError"
    /\ pc' = "down"
    /\ session' = <<>>
    /\ everRaised' = TRUE
    /\ load' = [cat |-> Cat(ci), status |-> "raised", brand0 |-> Len(brand),
                null_id |-> FALSE, added |-> NoReport]
    \* no record was read and add_*_to_db was not entered
    /\ cleaned' = <<>>
    /\ brand_cache' = EmptyDict
    /\ resolved' = <<>>
    /\ i' = 1
    /\ UNCHANGED <<files, absent, brand, tables, ci, startups, everUp>>
    /\ UNCHANGED <<normVars, strict, raceVars, apiVars>>

\* load_weblocks cleaned no payload: it prints that it aborts and returns
\* before add_weblocks_to_db
load_nothing_cleaned ==
    /\ pc = "check"
    /\ ci <= Len(Lifespan)
    /\ TableEmpty(tables, Cat(ci))
    /\ FileExists(absent, Cat(ci))
    /\ NothingCleaned(Cat(ci), files[Cat(ci)], strict)
    /\ cleaned' = <<>>
    /\ brand_cache' = EmptyDict
    /\ resolved' = <<>>
    /\ i' = 1
    /\ ci' = ci + 1
    /\ load' = [cat |-> Cat(ci), status |-> "returned", brand0 |-> Len(brand),
                null_id |-> FALSE, added |-> NoReport]
    /\ UNCHANGED <<files, absent, brand, tables, session, pc, err, startups, everUp,
                   everRaised>>
    /\ UNCHANGED <<normVars, strict, raceVars, apiVars>>

\* One pass of the loop of add_*_to_db: get_brand, build, session.add
add_record ==
    /\ pc = "loop"
    /\ i <= Len(cleaned)
    /\ \E fault \in BOOLEAN, persisted \in BOOLEAN :
        LET cat == Cat(ci)
            rec == cleaned[i]
            g == get_brand(brand, brand_cache, [brand |-> BrandOf(cat, rec)],
                           fault, persisted)
            b == Build(cat, rec, g.brand_id, i)
        IN  /\ brand' = g.brand
            /\ brand_cache' = g.brand_cache
            /\ IF g.raised
               THEN /\ Raise("ValueError", g.null_id)
                    /\ tables' = IF g.committed THEN Commit(tables, cat, session) ELSE tables
                    /\ UNCHANGED <<resolved, i>>
               ELSE /\ resolved' = Append(resolved, <<g.name, g.brand_id>>)
                    /\ tables' = IF g.committed THEN Commit(tables, cat, session) ELSE tables
                    /\ IF Raised(b)
                       THEN Raise(b.v, g.null_id) /\ UNCHANGED i
                       ELSE IF g.brand_id \notin DOMAIN g.brand
                       \* session.get(Brand, brand_id) is None: `.brand.name` fails
                       THEN Raise("AttributeError", g.null_id) /\ UNCHANGED i
                       ELSE /\ session' = (IF g.committed THEN <<>> ELSE session) \o <<b.v>>
                            /\ i' = i + 1
                            /\ load' = [load EXCEPT !.null_id = g.null_id]
                            /\ UNCHANGED <<pc, err, everRaised>>
    /\ UNCHANGED <<files, absent, ci, cleaned, startups, everUp>>
    /\ UNCHANGED <<normVars, strict, raceVars, apiVars>>

\* After the loop: session.commit(), then session.refresh(db_x) of the last
\* record of the loop, a name that is unbound when the loop never ran
add_commit ==
    /\ pc = "loop"
    /\ i > Len(cleaned)
    /\ tables' = Commit(tables, Cat(ci), session)
    /\ IF cleaned = <<>>
       THEN Raise("UnboundLocalError", FALSE) /\ UNCHANGED ci
       ELSE /\ session' = <<>>
            /\ pc' = "check"
            /\ ci' = ci + 1
            /\ load' = [load EXCEPT !.status = "returned",
                                    !.added = ReportedCount(Cat(ci), cleaned)]
            /\ UNCHANGED <<err, everRaised>>
    /\ UNCHANGED <<files, absent, brand, brand_cache, cleaned, i, resolved, startups, everUp>>
    /\ UNCHANGED <<normVars, strict, raceVars, apiVars>>

\* Every category was checked: lifespan yields and the application serves
lifespan_yield ==
    /\ pc = "check"
    /\ ci > Len(Lifespan)
    /\ pc' = "up"
    /\ everUp' = TRUE
    /\ UNCHANGED <<files, absent, brand, tables, session, brand_cache, ci, cleaned, i,
                   resolved, load, err, startups, everRaised>>
    /\ UNCHANGED <<normVars, strict, raceVars, apiVars>>

\* The process stops; it can be started again
shutdown ==
    /\ pc = "up"
    /\ pc' = "down"
    /\ UNCHANGED <<files, absent, brand, tables, session, brand_cache, ci, cleaned, i,
                   resolved, load, err, startups, everUp, everRaised>>
    /\ UNCHANGED <<normVars, strict, raceVars, apiVars>>

Next ==
    \/ lifespan_start
    \/ lifespan_skip
    \/ load_begin
    \/ load_not_found
    \/ load_nothing_cleaned
    \/ add_record
    \/ add_commit
    \/ lifespan_yield
    \/ shutdown

Spec == Init /\ [][Next]_vars

(***************************************************************************)
(* Properties of the loaders and of brand resolution (checked under Spec)  *)
(***************************************************************************)
RowsNamed(brand_name) == {r \in DOMAIN brand : brand[r] = brand_name}
LoadEnded == load.status \in {"returned", "raised"}
BrandIdOk(row) == row.brand_id # NoId /\ row.brand_id \in DOMAIN brand

\* C1: within one batch, get_brand returns the same id for all records that
\* share a brand name, and the brand table holds exactly one row of each name
\* the batch resolved.
C1_SameNameSameId ==
    /\ \A j, k \in DOMAIN resolved :
          resolved[j][1] = resolved[k][1] => resolved[j][2] = resolved[k][2]
    /\ \A j \in DOMAIN resolved : Cardinality(RowsNamed(resolved[j][1])) = 1

\* A batch returned whose first two records share a brand name.
C1_Witness ==
    /\ load.status = "returned"
    /\ Len(resolved) >= 2
    /\ resolved[1][1] = resolved[2][1]

\* C2: across the loads of one process, and of later processes on the same
\* store, no two brand rows have the same name; the id get_brand returns is
\* the id of the row of that name, also when an earlier loader committed it.
C2_OneRowPerName ==
    /\ \A r, q \in DOMAIN brand : brand[r] = brand[q] => r = q
    /\ \A j \in DOMAIN resolved :
          /\ resolved[j][2] \in DOMAIN brand
          /\ brand[resolved[j][2]] = resolved[j][1]

\* A later loader of the same process resolved a name whose row an earlier
\* loader had committed.
C2_Witness ==
    /\ startups = 1
    /\ ci >= 2
    /\ load.status \in {"running", "returned"}
    /\ \E j \in DOMAIN resolved : resolved[j][2] <= load.brand0

\* C3: every committed equipment row carries a brand_id that is not None and
\* is the id of a brand row, in every state, also after a batch was aborted.
C3_NoOrphanRecords ==
    \A c \in Categories : \A k \in DOMAIN tables[c] : BrandIdOk(tables[c][k])

\* Rows are committed and a later batch was aborted by an exception.
C3_Witness ==
    /\ load.status = "raised"
    /\ \E c \in Categories : tables[c] # <<>>
    /\ \E c \in Categories : c # load.cat /\ tables[c] # <<>>

\* C4 (as claimed): when a load is ended by an exception at record i, no
\* equipment row of the batch is committed and no brand row created for the
\* records before i is committed.
C4_BatchIsOneTransaction ==
    load.status = "raised" =>
        /\ tables[load.cat] = <<>>
        /\ \A j \in DOMAIN resolved : j < i => resolved[j][2] <= load.brand0

\* The records of the running (or last) batch whose domain record cannot be
\* built, whatever brand id they get
Invalid == {k \in DOMAIN cleaned : Raised(Build(load.cat, cleaned[k], 1, k))}

\* C5 (as claimed): a batch of N >= 2 records of which exactly one fails to
\* build, with no store failure: the load returns and the N-1 valid records
\* are the committed rows of the category.
C5_PartialFailureIsolation ==
    (LoadEnded /\ Len(cleaned) >= 2 /\ Cardinality(Invalid) = 1 /\ err # "ValueError") =>
        /\ load.status = "returned"
        /\ {tables[load.cat][k].src : k \in DOMAIN tables[load.cat]}
              = DOMAIN cleaned \ Invalid

\* Every record of the file has exactly one committed row
LoadedOnce(c) ==
    LET payloads == CleanedPayloads(c, files[c], strict) IN
    /\ Len(tables[c]) = Len(payloads)
    /\ {tables[c][k].src : k \in DOMAIN tables[c]} = DOMAIN payloads

\* C6: a load step begins only when the category's table is empty; once a
\* startup has completed, later startups leave every table as it is; and
\* when every load of every startup succeeded, each record of each dataset
\* has exactly one row.
C6_LoadOnlyIfEmpty ==
    [][ /\ (pc = "check" /\ pc' = "loop") => tables[Cat(ci)] = <<>>
        /\ everUp => tables' = tables
        /\ (everUp /\ ~everRaised) => \A c \in Categories : LoadedOnce(c)
      ]_vars

\* A second startup completed after a first one, every load having succeeded.
C6_Witness ==
    /\ startups = 2
    /\ pc = "up"
    /\ ~everRaised

\* C7: when the store returns a newly created brand without an id, get_brand
\* raises ValueError: the load is aborted and the process start fails, the
\* name gets no cache entry, and no cached id and no brand_id of a staged or
\* committed row is None.
C7_NullBrandIdRaises ==
    /\ load.null_id =>
          /\ err = "ValueError"
          /\ load.status = "raised"
          /\ pc = "down"
          /\ Str(BrandOf(load.cat, cleaned[i])) \notin DOMAIN brand_cache
    /\ \A n \in DOMAIN brand_cache : brand_cache[n] # NoId
    /\ \A k \in DOMAIN session : session[k].brand_id # NoId
    /\ \A c \in Categories : \A k \in DOMAIN tables[c] : tables[c][k].brand_id # NoId

\* The store returned a brand without an id for the second record of a batch,
\* after the first record was staged.
C7_Witness ==
    /\ load.null_id
    /\ i = 2
    /\ Len(resolved) = 1

(***************************************************************************)
(* SpecNorm: the normalizers applied to Python values                      *)
(***************************************************************************)
MaxWords == 2       \* words in an input string

\* Words of the input strings; a string is one to MaxWords words, blank-joined
Words == {<<"A", "l", "u", "m", "i", "n", "u", "m">>,
          <<"S", "t", "a", "i", "n", "l", "e", "s", "s">>,
          <<"S", "t", "e", "e", "l">>,
          <<"T", "I", "T", "A", "N", "I", "U", "M">>,
          <<"u", "n", "k", "n", "o", "w", "n", "-", "a", "l", "l", "o", "y">>,
          <<"P", "i", "n">>}

RECURSIVE WordStrings(_)
WordStrings(n) ==
    IF n <= 1 THEN Words
    ELSE LET shorter == WordStrings(n - 1) IN
         shorter \cup {s \o <<" ">> \o w : s \in shorter, w \in Words}

Strings == {PyStr(s) : s \in WordStrings(MaxWords)}

\* Elements that follow the first element of a list
ListRest == {PyNone, PyStr(<<"A", "l", "u", "m", "i", "n", "u", "m">>), PyStr(<<"S", "t", "e", "e", "l">>)}

\* Absent, empty string, strings, non-string scalars, the empty list, and
\* lists whose first element is None or a string
MaxWidth == 26      \* largest width written in an input string

Widths == {0, 7} \cup (24 .. MaxWidth)

MM == <<"m", "m">>
\* The spellings of a single width and of a width range
SingleForms(a) ==
    {DigitsOf(a), DigitsOf(a) \o MM, <<" ">> \o DigitsOf(a) \o <<" ">> \o MM,
     DigitsOf(a) \o <<"M", "M">>}
RangeForms(a, b) ==
    {DigitsOf(a) \o MM \o <<"-">> \o DigitsOf(b) \o MM,
     DigitsOf(a) \o <<" ">> \o MM \o <<" ", "-", " ">> \o DigitsOf(b) \o <<" ">> \o MM,
     DigitsOf(a) \o <<"-">> \o DigitsOf(b),
     DigitsOf(a) \o <<"M", "M", " ", "-", " ">> \o DigitsOf(b)}

\* Width strings that are neither
OtherWidths ==
    {<<"n", "/", "a">>,
     <<"N", "/", "A">>,
     <<"n", "a">>,
     <<"u", "n", "k", "n", "o", "w", "n">>,
     <<"U", "n", "k", "n", "o", "w", "n">>,
     <<"w", "i", "d", "e">>,
     <<"m", "m", "2", "5">>,
     <<"-", "5", "m", "m">>,
     <<"2", "5", "m", "-", "2", "6">>,
     <<"2", "5", "-">>,
     <<" ", " ">>,
     <<"\t", "2", "5", "m", "m">>,
     <<"2", "5", ".", "5", "m", "m">>,
     <<"2", "5", "m", "m", " ", "w", "i", "d", "e">>}

WidthStrings ==
    UNION {SingleForms(a) : a \in Widths}
    \cup UNION {RangeForms(a, b) : a \in Widths, b \in Widths}
    \cup OtherWidths

\* Spellings of Boolean-like raw values
BoolLiterals ==
    {<<"t", "r", "u", "e">>,
     <<"T", "r", "u", "e">>,
     <<"T", "R", "U", "E">>,
     <<"1">>,
     <<"y", "e", "s">>,
     <<"Y", "e", "s">>,
     <<"f", "a", "l", "s", "e">>,
     <<"n", "o">>,
     <<"0">>}

\* Raw tensioning_type values: the enum's value strings and the
\* abbreviations of the datasets
TensioningValues ==
    {<<"S", "i", "n", "g", "l", "e", " ", "R", "a", "t", "c", "h", "e", "t">>,
     <<"D", "o", "u", "b", "l", "e", " ", "R", "a", "t", "c", "h", "e", "t">>,
     <<"P", "r", "i", "m", "i", "t", "i", "v", "e">>,
     <<"O", "t", "h", "e", "r">>,
     <<"R", "A", "T", "1">>,
     <<"r", "a", "t", "2">>,
     <<"r", "a", "t", "c", "h", "e", "t">>,
     <<"s", "i", "n", "g", "l", "e">>,
     <<"p", "r", "i", "m">>}

Inputs ==
    {PyNone, PyStr(<<>>), PyInt(0), PyInt(5), PyBool(TRUE), PyBool(FALSE), PyList(<<>>)}
    \cup Strings
    \cup {PyStr(s) : s \in BoolLiterals}
    \cup {PyStr(s) : s \in WidthStrings}
    \cup {PyStr(s) : s \in TensioningValues}
    \cup {PyList(<<x>>) : x \in Strings \cup {PyNone}}
    \cup {PyList(<<x, y>>) : x \in Strings \cup {PyNone}, y \in ListRest}

StoreIdle ==
    /\ files = [c \in Categories |-> <<>>]
    /\ absent = {}
    /\ brand = <<>>
    /\ tables = [c \in Categories |-> <<>>]
    /\ session = <<>>
    /\ brand_cache = EmptyDict
    /\ pc = "down"
    /\ ci = 1
    /\ cleaned = <<>>
    /\ i = 1
    /\ resolved = <<>>
    /\ load = [cat |-> "none", status |-> "none", brand0 |-> 0, null_id |-> FALSE,
               added |-> NoReport]
    /\ err = "none"
    /\ startups = 0
    /\ everUp = FALSE
    /\ everRaised = FALSE

\* Free texts of a pricing entry and of the price field; PyNone stands for a
\* key that the document does not have
PriceTexts ==
    {PyNone, PyStr(<<"4", "9", ".", "9", "9", " ", "E", "U", "R">>),
     PyStr(<<"5", "0", " ", "U", "S", "D">>),
     PyStr(<<"G", "B", "P", " ", "7">>),
     PyStr(<<"c", "h", "e", "a", "p">>)}

Present(fields) == [k \in {x \in DOMAIN fields : fields[x] # PyNone} |-> fields[k]]

\* Weblock documents: an empty pricing list or one pricing entry, and the
\* "Price (per unit)" field of the specifications
WeblockDocs ==
    {PyDict([pricing |-> <<Present([text |-> x, tooltip |-> y])>>,
             specifications |-> Present([k \in {"Price (per unit)"} |-> z])]) :
        x \in PriceTexts, y \in PriceTexts, z \in PriceTexts}
    \cup {PyDict([pricing |-> <<>>,
                  specifications |-> Present([k \in {"Price (per unit)"} |-> z])]) :
            z \in PriceTexts}

InitNorm ==
    /\ StoreIdle /\ fn = "none" /\ out = PyNone /\ caller_dict = PyNone
    /\ arg \in Inputs \cup WeblockDocs
    /\ strict \in (IF arg.t = "dict" THEN BOOLEAN ELSE {FALSE})
    /\ RaceIdle
    /\ ApiIdle

\* clean_starterkit_data / clean_tricklinekit_data turn "" into None before
\* they look at tensioning_type
EmptyToNone(x) == IF x = PyStr(<<>>) THEN PyNone ELSE x

call_get_metal_material ==
    /\ arg.t # "dict"
    /\ fn' = "get_metal_material"
    /\ out' = get_metal_material(arg)
    /\ caller_dict' = PyNone
    /\ UNCHANGED <<storeVars, arg, strict, raceVars, apiVars>>
call_get_front_pin_type ==
    /\ arg.t # "dict"
    /\ fn' = "get_front_pin_type"
    /\ out' = get_front_pin_type(arg)
    /\ caller_dict' = PyNone
    /\ UNCHANGED <<storeVars, arg, strict, raceVars, apiVars>>
call_get_attachment_point ==
    /\ arg.t # "dict"
    /\ fn' = "get_attachment_point"
    /\ out' = get_attachment_point(arg)
    /\ caller_dict' = PyNone
    /\ UNCHANGED <<storeVars, arg, strict, raceVars, apiVars>>
call_get_connection_type ==
    /\ arg.t # "dict"
    /\ fn' = "get_connection_type"
    /\ out' = get_connection_type(arg)
    /\ caller_dict' = PyNone
    /\ UNCHANGED <<storeVars, arg, strict, raceVars, apiVars>>
call_get_material_type ==
    /\ arg.t # "dict"
    /\ fn' = "get_material_type"
    /\ out' = get_material_type(arg)
    /\ caller_dict' = PyNone
    /\ UNCHANGED <<storeVars, arg, strict, raceVars, apiVars>>
call_parse_boolean_isa ==
    /\ arg.t # "dict"
    /\ fn' = "parse_boolean_isa"
    /\ out' = parse_boolean_isa(arg)
    /\ caller_dict' = PyNone
    /\ UNCHANGED <<storeVars, arg, strict, raceVars, apiVars>>
call_starterkit_tensioning_type ==
    /\ arg.t # "dict"
    /\ fn' = "starterkit_tensioning_type"
    /\ out' = starterkit_tensioning_type(EmptyToNone(arg))
    /\ caller_dict' = PyNone
    /\ UNCHANGED <<storeVars, arg, strict, raceVars, apiVars>>
call_tricklinekit_tensioning_type ==
    /\ arg.t # "dict"
    /\ fn' = "tricklinekit_tensioning_type"
    /\ out' = tricklinekit_tensioning_type(EmptyToNone(arg))
    /\ caller_dict' = PyNone
    /\ UNCHANGED <<storeVars, arg, strict, raceVars, apiVars>>

call_parse_width_range ==
    /\ arg.t # "dict"
    /\ fn' = "parse_width_range"
    /\ out' = parse_width_range(arg)
    /\ caller_dict' = PyNone
    /\ UNCHANGED <<storeVars, arg, strict, raceVars, apiVars>>

\* The cleaners applied to a record whose Boolean-like field holds arg
call_clean_grip_data ==
    /\ arg.t # "dict"
    /\ fn' = "clean_grip_data"
    /\ out' = clean_grip_data([key \in {"isa_certified"} |-> arg])["isa_certified"]
    /\ caller_dict' = clean_grip_data_argument([key \in {"isa_certified"} |-> arg])
    /\ UNCHANGED <<storeVars, arg, strict, raceVars, apiVars>>
call_clean_webbing_data ==
    /\ arg.t # "dict"
    /\ fn' = "clean_webbing_data"
    /\ out' = clean_webbing_data([key \in {"isa_certified"} |-> arg])["isa_certified"]
    /\ caller_dict' = clean_webbing_data_argument([key \in {"isa_certified"} |-> arg])
    /\ UNCHANGED <<storeVars, arg, strict, raceVars, apiVars>>
call_clean_treepro_data ==
    /\ arg.t # "dict"
    /\ fn' = "clean_treepro_data"
    /\ out' = clean_treepro_data([key \in {"has_sling_attachment"} |-> arg])["has_sling_attachment"]
    /\ caller_dict' = clean_treepro_data_argument([key \in {"has_sling_attachment"} |-> arg])
    /\ UNCHANGED <<storeVars, arg, strict, raceVars, apiVars>>
call_clean_starterkit_data ==
    /\ arg.t # "dict"
    /\ fn' = "clean_starterkit_data"
    /\ out' = clean_starterkit_data([key \in {"includes_treepro"} |-> arg])["includes_treepro"]
    /\ caller_dict' = clean_starterkit_data_argument([key \in {"includes_treepro"} |-> arg])
    /\ UNCHANGED <<storeVars, arg, strict, raceVars, apiVars>>

\* The keys of a webbing record (load_webbings.py lines 47-60 read them)
WebbingFields ==
    {"name", "brand", "materialType", "width", "weight", "breakingStrength",
     "stretch", "isa_certified"}

\* clean_webbing_data applied to a record that holds arg under one key
call_clean_webbing_field ==
    /\ arg.t # "dict"
    /\ \E key \in WebbingFields :
          /\ out' = PyDict(clean_webbing_data([k \in {key} |-> arg]))
          /\ caller_dict' = clean_webbing_data_argument([k \in {key} |-> arg])
    /\ fn' = "clean_webbing_data: field"
    /\ UNCHANGED <<storeVars, arg, strict, raceVars, apiVars>>

\* The price and currency extraction applied to a weblock document
call_parse_price_from_weblock ==
    /\ arg.t = "dict"
    /\ fn' = "parse_price_from_weblock"
    /\ out' = parse_price_from_weblock(arg.v)
    /\ caller_dict' = PyNone
    /\ UNCHANGED <<storeVars, arg, strict, raceVars, apiVars>>
call_parse_currency_from_weblock ==
    /\ arg.t = "dict"
    /\ fn' = "parse_currency_from_weblock"
    /\ out' = parse_currency_from_weblock(arg.v, strict)
    /\ caller_dict' = PyNone
    /\ UNCHANGED <<storeVars, arg, strict, raceVars, apiVars>>
call_clean_weblock_data ==
    /\ arg.t = "dict"
    /\ fn' = "clean_weblock_data"
    /\ out' = clean_weblock_data(arg.v, strict)
    /\ caller_dict' = PyNone
    /\ UNCHANGED <<storeVars, arg, strict, raceVars, apiVars>>

NextNorm ==
    \/ call_get_metal_material
    \/ call_get_front_pin_type
    \/ call_get_attachment_point
    \/ call_get_connection_type
    \/ call_get_material_type
    \/ call_parse_boolean_isa
    \/ call_starterkit_tensioning_type
    \/ call_tricklinekit_tensioning_type
    \/ call_parse_width_range
    \/ call_clean_grip_data
    \/ call_parse_price_from_weblock
    \/ call_parse_currency_from_weblock
    \/ call_clean_weblock_data
    \/ call_clean_webbing_data
    \/ call_clean_webbing_field
    \/ call_clean_treepro_data
    \/ call_clean_starterkit_data

SpecNorm == InitNorm /\ [][NextNorm]_vars

(***************************************************************************)
(* Two concurrent loaders in get_brand (SpecRace).  A loader's statements  *)
(* run in order; between its existence query (lines 11-12) and its         *)
(* add/commit (lines 18-20) the other loader may run.  A query sees the    *)
(* committed brand rows; nothing constrains two rows to differ in name.    *)
(***************************************************************************)
raceFrame == <<files, absent, tables, session, brand_cache, pc, ci, cleaned, i, resolved,
               load, err, startups, everUp, everRaised, normVars, strict, apiVars>>

RaceItems == UNION {[1..n -> BrandValues] : n \in 1..MaxRaceItems}

\* brand_name = str(item.get("brand")) of the item a loader is at
PendingName(r) == Str(r.items[r.k])

\* The loader is between its query, which found nothing, and its commit
AboutToCreate(r, brand_name) ==
    r.k <= Len(r.items) /\ r.step = "queried" /\ r.result = NoId
    /\ PendingName(r) = brand_name

InitRace ==
    /\ files = [c \in Categories |-> <<>>]
    /\ absent = {}
    /\ brand \in {<<>>, <<<<"A">>>>}
    /\ tables = [c \in Categories |-> <<>>]
    /\ session = <<>>
    /\ brand_cache = EmptyDict
    /\ pc = "down"
    /\ ci = 1
    /\ cleaned = <<>>
    /\ i = 1
    /\ resolved = <<>>
    /\ load = [cat |-> "none", status |-> "none", brand0 |-> 0, null_id |-> FALSE,
               added |-> NoReport]
    /\ err = "none"
    /\ startups = 0
    /\ everUp = FALSE
    /\ everRaised = FALSE
    /\ strict = FALSE
    /\ NormIdle
    /\ racer \in [Loaders -> {Racer(items) : items \in RaceItems}]
    /\ overlapped = {}
    /\ ApiIdle

\* lines 8-9 and 29-30: the name is in the loader's brand_cache
race_cache_hit ==
    \E l \in Loaders :
        LET r == racer[l] IN
        /\ r.k <= Len(r.items)
        /\ r.step = "test"
        /\ PendingName(r) \in DOMAIN r.cache
        /\ racer' = [racer EXCEPT ![l].k = r.k + 1]
        /\ UNCHANGED <<brand, overlapped, raceFrame>>

\* lines 8-12: the name is not in the cache, the loader asks the store
race_query ==
    \E l \in Loaders :
        LET r == racer[l]
            result == FindBrandId(brand, PendingName(r))
        IN
        /\ r.k <= Len(r.items)
        /\ r.step = "test"
        /\ PendingName(r) \notin DOMAIN r.cache
        /\ racer' = [racer EXCEPT ![l].step = "queried", ![l].result = result]
        /\ overlapped' =
              IF result = NoId
                 /\ \E m \in Loaders \ {l} : AboutToCreate(racer[m], PendingName(r))
              THEN overlapped \cup {PendingName(r)}
              ELSE overlapped
        /\ UNCHANGED <<brand, raceFrame>>

\* lines 22-23 and 28-30: the query found a row
race_found ==
    \E l \in Loaders :
        LET r == racer[l] IN
        /\ r.k <= Len(r.items)
        /\ r.step = "queried"
        /\ r.result # NoId
        /\ racer' = [racer EXCEPT ![l].step = "test", ![l].k = r.k + 1,
                                  ![l].cache = (PendingName(r) :> r.result) @@ r.cache]
        /\ UNCHANGED <<brand, overlapped, raceFrame>>

\* lines 13-21 and 28-30: the query found nothing; the loader adds a brand
\* row, commits, reads the id back and caches it
race_create ==
    \E l \in Loaders :
        LET r == racer[l]
            tbl2 == Append(brand, PendingName(r))
        IN
        /\ r.k <= Len(r.items)
        /\ r.step = "queried"
        /\ r.result = NoId
        /\ brand' = tbl2
        /\ racer' = [racer EXCEPT ![l].step = "test", ![l].k = r.k + 1,
                                  ![l].cache = (PendingName(r) :> CreatedBrandId(tbl2, FALSE))
                                               @@ r.cache]
        /\ UNCHANGED <<overlapped, raceFrame>>

NextRace ==
    \/ race_cache_hit
    \/ race_query
    \/ race_found
    \/ race_create

SpecRace == InitRace /\ [][NextRace]_vars

(***************************************************************************)
(* run_loader.py (SpecLoader): each run opens a session and calls          *)
(* load_weblocks, whatever the weblock table holds.  The loop and the      *)
(* commit of add_weblocks_to_db are the actions add_record and add_commit; *)
(* pc = "check" is the `finally` block after load_weblocks returned.       *)
(***************************************************************************)
InitLoader ==
    /\ files \in {[c \in Categories |-> IF c = "weblock" THEN d ELSE <<>>] :
                    d \in UNION {[1..n -> RawRecords("weblock") \cup
                        \* a document whose brand differs from "A" in case only
                        {[name |-> PyStr(<<"w">>), brand |-> PyStr(<<"a">>),
                          pricing |-> <<>>,
                          specifications |-> [k \in {} |-> PyNone]]}] :
                                    n \in 0..MaxRecords}}
    /\ absent = {}
    /\ brand = <<>>
    /\ tables = [c \in Categories |-> <<>>]
    /\ session = <<>>
    /\ brand_cache = EmptyDict
    /\ pc = "down"
    /\ ci = 1
    /\ cleaned = <<>>
    /\ i = 1
    /\ resolved = <<>>
    /\ load = [cat |-> "none", status |-> "none", brand0 |-> 0, null_id |-> FALSE,
               added |-> NoReport]
    /\ err = "none"
    /\ startups = 0
    /\ everUp = FALSE
    /\ everRaised = FALSE
    /\ strict \in BOOLEAN
    /\ NormIdle
    /\ RaceIdle
    /\ ApiIdle

\* run(): a session is opened and load_weblocks cleans the documents and
\* enters add_weblocks_to_db
run_loader ==
    /\ pc = "down"
    /\ startups < MaxStartups
    /\ ~NothingCleaned("weblock", files["weblock"], strict)
    /\ cleaned' = CleanedPayloads("weblock", files["weblock"], strict)
    /\ brand_cache' = EmptyDict
    /\ resolved' = <<>>
    /\ i' = 1
    /\ ci' = 1
    /\ pc' = "loop"
    /\ session' = <<>>
    /\ err' = "none"
    /\ startups' = startups + 1
    /\ load' = [cat |-> "weblock", status |-> "running", brand0 |-> Len(brand),
                null_id |-> FALSE, added |-> NoReport]
    /\ UNCHANGED <<files, absent, brand, tables, everUp, everRaised>>
    /\ UNCHANGED <<normVars, strict, raceVars, apiVars>>

\* run(): load_weblocks cleaned no payload and returns; the session is closed
run_loader_nothing_cleaned ==
    /\ pc = "down"
    /\ startups < MaxStartups
    /\ NothingCleaned("weblock", files["weblock"], strict)
    /\ cleaned' = <<>>
    /\ brand_cache' = EmptyDict
    /\ resolved' = <<>>
    /\ i' = 1
    /\ ci' = 1
    /\ session' = <<>>
    /\ err' = "none"
    /\ startups' = startups + 1
    /\ load' = [cat |-> "weblock", status |-> "returned", brand0 |-> Len(brand),
                null_id |-> FALSE, added |-> NoReport]
    /\ UNCHANGED <<files, absent, brand, tables, pc, everUp, everRaised>>
    /\ UNCHANGED <<normVars, strict, raceVars, apiVars>>

\* load_weblocks returned: `finally: session.close()`, the run is over
run_loader_finish ==
    /\ pc = "check"
    /\ pc' = "down"
    /\ session' = <<>>
    /\ UNCHANGED <<files, absent, brand, tables, brand_cache, ci, cleaned, i, resolved,
                   load, err, startups, everUp, everRaised>>
    /\ UNCHANGED <<normVars, strict, raceVars, apiVars>>

NextLoader ==
    \/ run_loader
    \/ run_loader_nothing_cleaned
    \/ add_record
    \/ add_commit
    \/ run_loader_finish

SpecLoader == InitLoader /\ [][NextLoader]_vars

(***************************************************************************)
(* The category routers (SpecApi).  The five routers differ in the names   *)
(* of their model classes only; each serves its own table.                 *)
(***************************************************************************)
apiFrame == <<storeVars, normVars, strict, raceVars>>

\* The ids a client puts in the path, 0 included
RequestIds == 0 .. (MaxPosts + 1)

\* The names a POST or PATCH body carries
BodyNames == {"a", "b"}

\* Path(gt=0): the path parameter passes validation
PathValid(id) == id > 0

\* the `if not db_x` test left out
Found_always(rows, id) == TRUE

\* `db_x = session.get(X, x_id)` followed by `if not db_x`
Found(rows, id) == id \in DOMAIN rows

\* An autoincrement primary key: the store hands out ids in increasing
\* order and never hands one out twice
IdAfter(next) == next + 1

\* The rows created so far
RECURSIVE SumNext(_)
SumNext(cats) ==
    IF cats = {} THEN 0
    ELSE LET c == CHOOSE x \in cats : TRUE IN (api_next[c] - 1) + SumNext(cats \ {c})
RowsPosted == SumNext(ApiCategories)

\* POST /{category}/: create_x adds the row, commits and returns it
create_item ==
    /\ RowsPosted < MaxPosts
    /\ \E cat \in ApiCategories, name \in BodyNames :
          /\ api_rows' = [api_rows EXCEPT
                             ![cat] = (api_next[cat] :> name) @@ api_rows[cat]]
          /\ api_next' = [api_next EXCEPT ![cat] = IdAfter(api_next[cat])]
          /\ resp' = [op |-> "POST", cat |-> cat, id |-> api_next[cat], status |-> 200]
    /\ UNCHANGED <<api_gone, apiFrame>>

\* GET /{category}/{id}: read_x
read_item ==
    /\ \E cat \in ApiCategories, id \in RequestIds :
          resp' = [op |-> "GET", cat |-> cat, id |-> id,
                   status |-> IF ~PathValid(id) THEN 422
                              ELSE IF ~Found(api_rows[cat], id) THEN 404 ELSE 200]
    /\ UNCHANGED <<api_rows, api_next, api_gone, apiFrame>>

\* PATCH /{category}/{id}: update_x sets the fields of the body and commits
update_item ==
    /\ \E cat \in ApiCategories, id \in RequestIds, name \in BodyNames :
          IF ~PathValid(id)
          THEN /\ resp' = [op |-> "PATCH", cat |-> cat, id |-> id, status |-> 422]
               /\ UNCHANGED api_rows
          ELSE IF ~Found(api_rows[cat], id)
          THEN /\ resp' = [op |-> "PATCH", cat |-> cat, id |-> id, status |-> 404]
               /\ UNCHANGED api_rows
          ELSE /\ resp' = [op |-> "PATCH", cat |-> cat, id |-> id, status |-> 200]
               /\ api_rows' = [api_rows EXCEPT ![cat] = (id :> name) @@ api_rows[cat]]
    /\ UNCHANGED <<api_next, api_gone, apiFrame>>

\* DELETE /{category}/{id}: delete_x deletes the row and commits
delete_item ==
    /\ \E cat \in ApiCategories, id \in RequestIds :
          IF ~PathValid(id)
          THEN /\ resp' = [op |-> "DELETE", cat |-> cat, id |-> id, status |-> 422]
               /\ UNCHANGED <<api_rows, api_gone>>
          ELSE IF ~Found(api_rows[cat], id)
          THEN /\ resp' = [op |-> "DELETE", cat |-> cat, id |-> id, status |-> 404]
               /\ UNCHANGED <<api_rows, api_gone>>
          ELSE /\ resp' = [op |-> "DELETE", cat |-> cat, id |-> id, status |-> 200]
               /\ api_rows' = [api_rows EXCEPT
                                  ![cat] = [x \in DOMAIN api_rows[cat] \ {id} |->
                                               api_rows[cat][x]]]
               /\ api_gone' = [api_gone EXCEPT ![cat] = api_gone[cat] \cup {id}]
    /\ UNCHANGED <<api_next, apiFrame>>

InitApi ==
    /\ StoreIdle
    /\ strict = FALSE
    /\ NormIdle
    /\ RaceIdle
    /\ ApiIdle

NextApi ==
    \/ create_item
    \/ read_item
    \/ update_item
    \/ delete_item

SpecApi == InitApi /\ [][NextApi]_vars

(***************************************************************************)
(* Claims about the normalizers (SpecNorm)                                 *)
(***************************************************************************)
\* The keyword patterns of each enum normalizer, lower-cased
Keywords(f) ==
    IF f = "get_metal_material" THEN
        {<<"a", "l", "u", "m", "i", "n", "u", "m">>, <<"s", "t", "a", "i", "n", "l", "e", "s", "s">>, <<"s", "t", "e", "e", "l">>, <<"t", "i", "t", "a", "n", "i", "u", "m">>} ELSE
    IF f = "get_front_pin_type" THEN
        {<<"p", "u", "s", "h">>, <<"p", "u", "l", "l">>, <<"c", "a", "p", "t", "i", "v", "e">>, <<"f", "i", "x", "e", "d">>} ELSE
    IF f = "get_attachment_point" THEN
        {<<"u", "n", "i", "v", "e", "r", "s", "a", "l">>, <<"p", "i", "n">>, <<"b", "o", "l", "t">>, <<"b", "e", "n", "t">>, <<"s", "l", "i", "n", "g">>, <<"h", "o", "l", "e">>} ELSE
    IF f = "get_connection_type" THEN
        {<<"d", "y", "n", "e", "e", "m", "a", " ", "s", "l", "i", "n", "g", " ", "l", "o", "o", "p">>, <<"m", "o", "u", "n", "t", "i", "n", "g", " ", "h", "o", "l", "e">>} ELSE
    IF f = "get_material_type" THEN
        {<<"p", "e", "s", "/", "p", "o", "l", "y", "a", "m", "i", "d">>, <<"n", "y", "l", "o", "n">>, <<"p", "o", "l", "y", "a", "m", "i", "d">>, <<"p", "o", "l", "y", "e", "s", "t", "e", "r">>, <<"p", "e", "s">>, <<"d", "y", "n", "e", "e", "m", "a">>, <<"v", "e", "c", "t", "r", "a", "n">>} ELSE
    IF f = "starterkit_tensioning_type" THEN
        {<<"r", "a", "t", "2">>, <<"d", "o", "u", "b", "l", "e">>, <<"r", "a", "t", "1">>, <<"r", "a", "t">>, <<"s", "i", "n", "g", "l", "e">>, <<"p", "r", "i", "m">>} ELSE
    IF f = "tricklinekit_tensioning_type" THEN
        {<<"r", "a", "t", "2">>, <<"d", "o", "u", "b", "l", "e">>, <<"r", "a", "t", "1">>} ELSE
    {}

EnumNormalizers ==
    {"get_metal_material", "get_front_pin_type", "get_attachment_point",
     "get_connection_type", "get_material_type",
     "starterkit_tensioning_type", "tricklinekit_tensioning_type"}

EmptyOrAbsent(x) == x \in {PyNone, PyStr(<<>>), PyList(<<>>)}

NoKeyword(f, x) ==
    x.t = "str" /\ \A k \in Keywords(f) : ~Contains(k, Lower(x.v))

\* C8: every normalizer returns a value and never raises, for absent, empty,
\* string, non-string scalar and list inputs
C8_Totality == fn # "none" => ~Raised(out)

\* C9: an enum normalizer applied to an empty or absent input, or to a string
\* in which none of its keywords occurs, returns the OTHER member
C9_FallbackIsOther ==
    (fn \in EnumNormalizers /\ (EmptyOrAbsent(arg) \/ NoKeyword(fn, arg))) =>
        out = PyEnum("OTHER")

\* The ordered keyword patterns of the metal material
MetalPatterns ==
    << <<<<"a", "l", "u", "m", "i", "n", "u", "m">>, "ALUMINUM">>,
       <<<<"s", "t", "a", "i", "n", "l", "e", "s", "s">>, "STAINLESS_STEEL">>,
       <<<<"s", "t", "e", "e", "l">>, "STEEL">>,
       <<<<"t", "i", "t", "a", "n", "i", "u", "m">>, "TITANIUM">> >>

\* The member of the first pattern of the list that occurs in s, else OTHER
RECURSIVE FirstMatch(_, _)
FirstMatch(patterns, s) ==
    IF patterns = <<>> THEN "OTHER"
    ELSE IF Contains(Head(patterns)[1], s) THEN Head(patterns)[2]
    ELSE FirstMatch(Tail(patterns), s)

StainlessSteelAluminum == PyList(<<PyStr(<<"S", "t", "a", "i", "n", "l", "e", "s", "s", " ", "S", "t", "e", "e", "l">>), PyStr(<<"A", "l", "u", "m", "i", "n", "u", "m">>)>>)

\* C10: get_metal_material returns the member of the first keyword, in the
\* order aluminum, stainless, steel, titanium, that occurs in the lower-cased
\* input; a string with "stainless" and without "aluminum" gives
\* STAINLESS_STEEL, ["Stainless Steel", "Aluminum"] gives STAINLESS_STEEL,
\* "unknown-alloy" gives OTHER; of a list only the first element counts
C10_FirstMatchFirstElement ==
    fn = "get_metal_material" =>
        /\ (arg.t = "str" /\ arg.v # <<>>) =>
              out = PyEnum(FirstMatch(MetalPatterns, Lower(arg.v)))
        /\ (arg.t = "str" /\ Contains(<<"s", "t", "a", "i", "n", "l", "e", "s", "s">>, Lower(arg.v)) /\ ~Contains(<<"a", "l", "u", "m", "i", "n", "u", "m">>, Lower(arg.v))) =>
              out = PyEnum("STAINLESS_STEEL")
        /\ arg = StainlessSteelAluminum => out = PyEnum("STAINLESS_STEEL")
        /\ arg = PyStr(<<"u", "n", "k", "n", "o", "w", "n", "-", "a", "l", "l", "o", "y">>) => out = PyEnum("OTHER")
        /\ (arg.t = "list" /\ arg.v # <<>>) =>
              /\ out = get_metal_material(PyList(<<arg.v[1]>>))
              /\ (arg.v[1].t = "str" /\ arg.v[1].v # <<>>) =>
                    out = PyEnum(FirstMatch(MetalPatterns, Lower(arg.v[1].v)))

C10_Witness ==
    /\ fn = "get_metal_material"
    /\ arg = StainlessSteelAluminum
    /\ out = PyEnum("STAINLESS_STEEL")

\* The raw values the Boolean rule names as true
TrueLike(x) ==
    \/ x = PyBool(TRUE)
    \/ x.t = "str" /\ Lower(x.v) \in {<<"t", "r", "u", "e">>, <<"1">>, <<"y", "e", "s">>}

BoolCleaners ==
    {"clean_grip_data", "clean_webbing_data", "clean_treepro_data", "clean_starterkit_data"}

\* C11: a cleaner turns a Boolean-like field into true exactly when the raw
\* value is True or a string equal, ignoring case, to "true", "1" or "yes",
\* and into false for every other None, string or Boolean raw value
C11_BooleanCoercion ==
    (fn \in BoolCleaners /\ arg.t \in {"none", "str", "bool"}) =>
        out = PyBool(TrueLike(arg))

\* C12: parse_width_range of a range "a mm - b mm" of non-negative integers
\* is (min(a, b), max(a, b)), so swapping the endpoints changes nothing, and
\* the first component of a result is never greater than the second
C12_RangeOrdering ==
    fn = "parse_width_range" =>
        /\ \A a, b \in Widths :
              (arg.t = "str" /\ arg.v \in RangeForms(a, b)) =>
                  out = PyTuple(IF a <= b THEN a ELSE b, IF a <= b THEN b ELSE a)
        /\ out.t = "tuple" => out.v[1] <= out.v[2]

\* "26mm-24mm" was parsed
C12_Witness ==
    /\ fn = "parse_width_range"
    /\ arg = PyStr(<<"2", "6", "m", "m", "-", "2", "4", "m", "m">>)
    /\ out = PyTuple(24, 26)

\* Tabs and blanks removed
RECURSIVE RemoveWhitespace(_)
RemoveWhitespace(s) ==
    IF s = <<>> THEN s
    ELSE IF Head(s) \in {" ", "\t"} THEN RemoveWhitespace(Tail(s))
    ELSE <<Head(s)>> \o RemoveWhitespace(Tail(s))

NotAvailable == {<<"n", "/", "a">>, <<"n", "a">>, <<"u", "n", "k", "n", "o", "w", "n">>}

Sources(doc) ==
    <<Get(FirstPricing(doc), "text"), Get(FirstPricing(doc), "tooltip"), PriceField(doc)>>

HasPrice(x) == x.t = "str" /\ PriceSearch(x.v).matched
HasCode(x) == x.t = "str" /\ \E code \in CurrencyCodes : Contains(code, x.v)

RECURSIVE FirstPrice(_)
FirstPrice(srcs) ==
    IF srcs = <<>> THEN PyNone
    ELSE IF HasPrice(Head(srcs)) THEN PyFloat(PriceSearch(Head(srcs).v).number)
    ELSE FirstPrice(Tail(srcs))

RECURSIVE FirstCode(_)
FirstCode(srcs) ==
    IF srcs = <<>> THEN PyCurrency(<<"E", "U", "R">>)
    ELSE IF HasCode(Head(srcs))
    THEN PyCurrency(CHOOSE code \in CurrencyCodes : Contains(code, Head(srcs).v))
    ELSE FirstCode(Tail(srcs))

\* C14: the price and the currency of a weblock come from the first of the
\* sources text, tooltip, price field that holds a match; a later source is
\* used only when no earlier one holds a match
C14_SourcePriority ==
    /\ fn = "parse_price_from_weblock" => out = FirstPrice(Sources(arg.v))
    /\ (fn = "parse_currency_from_weblock" /\ ~Raised(out)) =>
          out = FirstCode(Sources(arg.v))

\* C15: a weblock with no currency code in any source is cleaned with no
\* price and with the fallback currency <<"E", "U", "R">>, also when the currency lookup
\* fails on the first source
C15_NoPriceFallback ==
    (fn = "clean_weblock_data"
     /\ \A k \in 1..3 : ~HasCode(Sources(arg.v)[k])) =>
        /\ ~Raised(out)
        /\ out.v.price = PyNone
        /\ out.v.currency = PyStr(<<"E", "U", "R">>)

\* C16: when the dataset file of the category to load does not exist, the
\* load raises FileNotFoundError at once: no brand is looked up or created,
\* no row is staged or committed and the store is as it was
C16_SourceNotFound ==
    [][ (pc = "check" /\ ci <= Len(Lifespan) /\ tables[Cat(ci)] = <<>>
         /\ Cat(ci) \in absent) =>
            /\ err' = "FileNotFoundError"
            /\ load'.status = "raised"
            /\ load'.cat = Cat(ci)
            /\ resolved' = <<>>
            /\ brand' = brand
            /\ tables' = tables
            /\ session' = session
      ]_vars

\* The load of a category without a file raised after an earlier category
\* was loaded
C16_Witness ==
    /\ err = "FileNotFoundError"
    /\ load.cat \in absent
    /\ brand # <<>>
    /\ \E c \in Categories : tables[c] # <<>>

\* C17 (as claimed): a record whose name is None after cleaning fails to
\* build, so no staged and no committed row comes from it
C17_NameRequired ==
    load.cat \in Categories =>
        \A k \in DOMAIN cleaned :
            NameOf(load.cat, cleaned[k]) = PyNone =>
                /\ \A r \in DOMAIN session : session[r].src # k
                /\ \A r \in DOMAIN tables[load.cat] : tables[load.cat][r].src # k


\* C18: the count a category load reports is the number of equipment rows the
\* load committed (the category's table was empty when the load began, so
\* its rows are the rows of this load): a number, never None.
C18_ReportedCountIsCommitted ==
    (load.status = "returned" /\ load.added # NoReport) =>
        load.added = PyInt(Len(tables[load.cat]))

\* C19: a load whose dataset file exists and holds no record returns
\* normally, reports zero, and leaves the category's table and the brand
\* table as they were.
C19_EmptySourceLoadsNothing ==
    (/\ load.cat \in Categories
     /\ load.cat \notin absent
     /\ files[load.cat] = <<>>
     /\ load.status # "running") =>
        /\ load.status = "returned"
        /\ load.added = PyInt(0)
        /\ tables[load.cat] = <<>>
        /\ Len(brand) = load.brand0


\* C20: two loaders with their own caches and sessions leave two brand rows
\* of one name exactly when both asked the store for the name before either
\* committed its row: a name never has more rows than there are loaders, a
\* second row comes only from such an overlap, and once both loaders are
\* past an overlap the name has two rows.
C20_DuplicateByRace ==
    \A brand_name \in {Str(b) : b \in BrandValues} :
        /\ Cardinality(RowsNamed(brand_name)) <= Cardinality(Loaders)
        /\ Cardinality(RowsNamed(brand_name)) > 1 => brand_name \in overlapped
        /\ (/\ brand_name \in overlapped
            /\ \A l \in Loaders : ~AboutToCreate(racer[l], brand_name))
              => Cardinality(RowsNamed(brand_name)) = 2

\* Both loaders queried a name missing from the store before either
\* committed, and the store now holds two rows of it, one in each cache
C20_Witness ==
    \E brand_name \in overlapped :
        /\ Cardinality(RowsNamed(brand_name)) = 2
        /\ \A l \in Loaders : brand_name \in DOMAIN racer[l].cache
        /\ racer[1].cache[brand_name] # racer[2].cache[brand_name]


\* C21: a clean_*_data call leaves the dict it was passed as it was
C21_CleanersLeaveArgument ==
    /\ fn = "clean_grip_data" => caller_dict = [key \in {"isa_certified"} |-> arg]
    /\ fn = "clean_webbing_data" => caller_dict = [key \in {"isa_certified"} |-> arg]
    /\ fn = "clean_treepro_data" => caller_dict = [key \in {"has_sling_attachment"} |-> arg]
    /\ fn = "clean_starterkit_data" => caller_dict = [key \in {"includes_treepro"} |-> arg]


\* C22: clean_webbing_data turns an empty string into 0 under width and
\* weight, leaves it under name, brand and materialType, and turns it into
\* None under every other key; a value that is neither None nor the empty
\* string never becomes None.
C22_WebbingEmptyString ==
    fn = "clean_webbing_data: field" =>
        \A key \in DOMAIN out.v :
            IF arg = PyStr(<<>>)
            THEN out.v[key] = (IF key \in {"width", "weight"} THEN PyInt(0)
                               ELSE IF key \in {"name", "brand", "materialType"}
                               THEN PyStr(<<>>)
                               ELSE PyNone)
            ELSE arg # PyNone => out.v[key] # PyNone

\* An empty width was cleaned
C22_Witness ==
    /\ fn = "clean_webbing_data: field"
    /\ arg = PyStr(<<>>)
    /\ DOMAIN out.v = {"width"}
    /\ out.v["width"] = PyInt(0)


\* The step served a GET, PATCH or DELETE of a valid path id
ItemRequest == resp'.op \in {"GET", "PATCH", "DELETE"} /\ PathValid(resp'.id)

C24_CacheHitIsFree ==
    [][ pc = "loop" =>
          /\ \A n \in DOMAIN brand_cache :
                n \in DOMAIN brand_cache' /\ brand_cache'[n] = brand_cache[n]
          /\ (i <= Len(cleaned)
              /\ Str(BrandOf(load.cat, cleaned[i])) \in DOMAIN brand_cache) =>
                /\ brand' = brand
                /\ brand_cache' = brand_cache
                /\ tables' = tables
                /\ resolved' = Append(resolved,
                      <<Str(BrandOf(load.cat, cleaned[i])),
                        brand_cache[Str(BrandOf(load.cat, cleaned[i]))]>>)
      ]_vars

\* A batch resolved the name of its second record from the cache, after
\* resolving two names
C24_Witness ==
    /\ pc = "loop"
    /\ Len(resolved) = 3
    /\ resolved[1][1] # resolved[2][1]
    /\ resolved[3] = resolved[1]
    /\ Len(brand) = load.brand0 + 2


\* The committed weblock rows that come from payload k
RowsOf(k) == {r \in DOMAIN tables["weblock"] : tables["weblock"][r].src = k}

\* C25: run after run without the emptiness guard, every run that succeeds
\* adds one row per payload, so after two runs each record has two rows;
\* the second and later runs add no brand row.
C25_NoDeduplication ==
    (pc = "down" /\ load.status = "returned" /\ ~everRaised) =>
        /\ \A k \in DOMAIN cleaned : Cardinality(RowsOf(k)) = startups
        /\ Len(tables["weblock"]) = startups * Len(cleaned)
        /\ startups >= 2 => Len(brand) = load.brand0
        /\ \A r, q \in DOMAIN brand : brand[r] = brand[q] => r = q

\* The second run is over: every document of a two-document file has two
\* rows, and the brand rows are those of the first run
C25_Witness ==
    /\ pc = "down"
    /\ load.status = "returned"
    /\ startups = 2
    /\ Len(files["weblock"]) = 2
    /\ Len(cleaned) = 2
    /\ \A k \in DOMAIN cleaned : Cardinality(RowsOf(k)) = 2
    /\ Len(brand) = 2


\* C26: the trickline-kit cleaner gives every raw tensioning_type the member
\* the starter-kit cleaner gives it, and both give the enum's value strings
\* their own member.
C26_UniformTensioning ==
    fn \in {"starterkit_tensioning_type", "tricklinekit_tensioning_type"} =>
        /\ out = starterkit_tensioning_type(EmptyToNone(arg))
        /\ arg = PyStr(<<"S", "i", "n", "g", "l", "e", " ", "R", "a", "t", "c", "h", "e", "t">>) => out = PyEnum("SINGLE_RATCHET")
        /\ arg = PyStr(<<"D", "o", "u", "b", "l", "e", " ", "R", "a", "t", "c", "h", "e", "t">>) => out = PyEnum("DOUBLE_RATCHET")
        /\ arg = PyStr(<<"P", "r", "i", "m", "i", "t", "i", "v", "e">>) => out = PyEnum("PRIMITIVE")
        /\ arg = PyStr(<<"O", "t", "h", "e", "r">>) => out = PyEnum("OTHER")


\* C27: no brand row is named "" or "None", and no staged or committed
\* equipment row comes from a record whose brand is None or the empty string.
C27_NoBrandForAbsentName ==
    /\ \A r \in DOMAIN brand : brand[r] \notin {<<>>, <<"N", "o", "n", "e">>}
    /\ load.cat \in Categories =>
          \A k \in DOMAIN cleaned :
              BrandOf(load.cat, cleaned[k]) \in {PyNone, PyStr(<<>>)} =>
                  /\ \A r \in DOMAIN session : session[r].src # k
                  /\ \A r \in DOMAIN tables[load.cat] : tables[load.cat][r].src # k


\* C28: every entry of the brand cache maps a name to the id of a brand row
\* that exists and carries exactly that name; no entry holds a null id.
C28_CacheIsSound ==
    \A n \in DOMAIN brand_cache :
        /\ brand_cache[n] # NoId
        /\ brand_cache[n] \in DOMAIN brand
        /\ brand[brand_cache[n]] = n

\* a load holds two cached names, one created by this load and one found in
\* the store from an earlier load
C28_Witness ==
    /\ load.status = "running"
    /\ \E n, m \in DOMAIN brand_cache :
          /\ n # m
          /\ brand_cache[n] <= load.brand0
          /\ brand_cache[m] > load.brand0


\* C29: while the brand table holds no name twice, two different names,
\* names that differ only in case included, never resolve to the same id:
\* neither among the ids get_brand returned in a batch nor in the cache.
C29_ResolutionIsInjective ==
    (\A r, q \in DOMAIN brand : brand[r] = brand[q] => r = q) =>
        /\ \A j, k \in DOMAIN resolved :
              resolved[j][1] # resolved[k][1] => resolved[j][2] # resolved[k][2]
        /\ \A n, m \in DOMAIN brand_cache :
              n # m => brand_cache[n] # brand_cache[m]

\* the second run resolved "A" and "a" against the rows of the first run,
\* to different ids
C29_Witness ==
    /\ startups = 2
    /\ load.brand0 >= 2
    /\ \E j, k \in DOMAIN resolved :
          /\ resolved[j][1] = <<"A">>
          /\ resolved[k][1] = <<"a">>
          /\ resolved[j][2] # resolved[k][2]


\* C30: in a startup that follows a startup aborted by an exception, every
\* category the lifespan has got past (its load returned or its guard skipped
\* it) holds one row per record the category's source yields: no table is
\* left holding only the rows committed before the abort.
C30_RecoversAfterRestart ==
    (everRaised /\ startups >= 2 /\ pc \in {"check", "loop", "up"}) =>
        \A k \in DOMAIN Lifespan : k < ci => LoadedOnce(Lifespan[k])

====
